---- MODULE Spec2Model ----
(***************************************************************************)
(* Forecast-and-notification engine of observe-pro-backend (src/app.py).   *)
(*                                                                         *)
(* Time is counted in ticks of 30 minutes (the smallest lead time of the   *)
(* milestone loop).  The record store (Supabase tables user_events and     *)
(* users) is the shared state; the two background loops of                 *)
(* start_background_jobs and the request handlers act on it.               *)
(***************************************************************************)
EXTENDS Integers, Sequences, FiniteSets, TLC

VARIABLES
    now,          \* datetime.utcnow(), in 30-minute ticks
    user_events,  \* table user_events: id of each row -> the row
    next_id,      \* the serial id the store gives the next inserted row
    users,        \* table users: user id -> [lat, last_aurora_push_at]
    sched,        \* scheduled_event_notification_job: position and snapshot
    aur,          \* aurora_notification_job: position, now_iso, snapshot, processed
    sent,         \* the send_push calls that returned in the latest loop step
    pushes,       \* history: <<row id, marker>> of every milestone push
    repushes,     \* history: the <<row id, marker>> pushed more than once
    reminded,     \* history: <<user id, event id, marker>> of every milestone push
    reminded_again, \* history: the <<user id, event id, marker>> pushed more than once
    last_alert,   \* history: user id -> start of the latest aurora cycle that pushed
    too_soon,     \* history: users pushed by two aurora cycles under 12 hours apart
    visit,        \* the row and the forecast of the latest pass of the aurora loop body
    caught,       \* the loops whose except clause has caught an exception
    push_tokens,  \* table push_tokens: token -> user id (token is unique)
    sp,           \* send_push: position, tokens fetched, sends made
    pcycle,       \* the cycle calling send_push: users still to push, users pushed
    ord,          \* one snapshot run through a loop body in two iteration orders
    kpfile,       \* AURORA_CACHE_FILE: absent, torn (cut short or garbled) or an entry
    kpcall,       \* fetch_noaa_kp_forecast_cached: caller -> position, locals, result
    wxcache,      \* weather cache files: grid cell -> absent or a stored document
    wxcall,       \* the latest call of get_weather_forecast
    band,         \* two latitudes and what required_kp_for_lat returns for them
    fc,           \* a Kp table, a time and a latitude, and the forecast made of them
    vis,          \* an event and a weather series, and the visibility estimated
    up,           \* the sources of the upcoming feed and the feed returned
    moon,         \* a moon-phase table and a day, and the moon events made of them
    tz            \* a saved event and an instant, and what each timezone dispatches

history == <<pushes, repushes, reminded, reminded_again, last_alert, too_soon>>

\* What the steps of the two loops and of the save and delete handlers leave alone.
extras == <<visit, caught, push_tokens, sp, pcycle, ord, kpfile, kpcall,
                   wxcache, wxcall, band, fc, vis, up, moon, tz>>

vars == <<now, user_events, next_id, users, sched, aur, sent, history, extras>>

NULL == -1        \* None / SQL NULL in a timestamp column
NoLat == 1000     \* None in users.lat

------------------------------------------------------------------------------
(* Bounds of the model *)

MaxTime == 4          \* the clock of the milestone specifications runs 0..MaxTime
MaxSaves == 1         \* rows ever inserted into user_events, under Spec and LiveSpec
MaxRows == 2          \* rows ever inserted, under HistorySpec and AuroraSpec

(* Time constants of the code, in ticks *)

M30 == 1                      \* timedelta(minutes=30)
Hours(n) == n * 2 * M30       \* timedelta(hours=n)

------------------------------------------------------------------------------
(* Saved events and their notification markers *)

Markers == {"notified_24h_at", "notified_12h_at", "notified_1h_at",
            "notified_4h_at", "notified_30m_at"}

EventTypes == {"aurora", "meteor", "eclipse", "comet", "alignment", "moon",
               "moon_special"}

UserIds == {"u1", "u2"}

\* Events a client can save: id, type and start are copied into the row by
\* add_user_event.  With the clock in 0..MaxTime, the 1-hour and 30-minute
\* thresholds of an event starting at 3 are crossed at 1 and 2 (its longer ones are
\* crossed from the beginning) and the event is past at 4; the 4-hour threshold of
\* aurora-b and the 24-hour threshold of eclipse-b are crossed at 2.
Catalog ==
    { [id |-> "aurora-a",    type |-> "aurora",       start |-> 3],
      [id |-> "aurora-b",    type |-> "aurora",       start |-> 2 + Hours(4)],
      [id |-> "meteor-a",    type |-> "meteor",       start |-> 3],
      [id |-> "eclipse-b",   type |-> "eclipse",      start |-> 2 + Hours(24)],
      [id |-> "comet-a",     type |-> "comet",        start |-> 3],
      [id |-> "alignment-a", type |-> "alignment",    start |-> 3],
      [id |-> "moon-a",      type |-> "moon",         start |-> 3],
      [id |-> "moon-sp-a",   type |-> "moon_special", start |-> 3] }

RowIds == 1..(MaxSaves + MaxRows)

NewRow(user_id, e) ==
    [user_id |-> user_id, event_id |-> e.id, type |-> e.type, start |-> e.start,
     notified_24h_at |-> NULL, notified_12h_at |-> NULL, notified_1h_at |-> NULL,
     notified_4h_at |-> NULL, notified_30m_at |-> NULL]

\* LeadTime with the 1-hour reminder given a 2-hour lead.
LeadTime_1hAs2h(m) ==
    CASE m = "notified_24h_at" -> Hours(24)
      [] m = "notified_12h_at" -> Hours(12)
      [] m = "notified_4h_at"  -> Hours(4)
      [] m = "notified_1h_at"  -> Hours(2)
      [] m = "notified_30m_at" -> M30

\* timedelta of each marker's `if` in the milestone loop
LeadTime(m) ==
    CASE m = "notified_24h_at" -> Hours(24)
      [] m = "notified_12h_at" -> Hours(12)
      [] m = "notified_4h_at"  -> Hours(4)
      [] m = "notified_1h_at"  -> Hours(1)
      [] m = "notified_30m_at" -> M30

\* MilestonesOf with aurora rows sent down the eclipse / comet / alignment branch.
MilestonesOf_AuroraAsEclipse(type) ==
    CASE type = "meteor" -> <<"notified_12h_at", "notified_1h_at">>
      [] type \in {"aurora", "eclipse", "comet", "alignment"} ->
            <<"notified_24h_at", "notified_1h_at">>
      [] type = "moon" -> <<"notified_1h_at">>
      [] OTHER -> <<>>

\* MilestonesOf with every other type sent down the moon branch.
MilestonesOf_OtherAsMoon(type) ==
    CASE type = "aurora" -> <<"notified_4h_at", "notified_30m_at">>
      [] type = "meteor" -> <<"notified_12h_at", "notified_1h_at">>
      [] type \in {"eclipse", "comet", "alignment"} ->
            <<"notified_24h_at", "notified_1h_at">>
      [] OTHER -> <<"notified_1h_at">>

\* The if / elif chain on event_type: the markers each branch tests, in order.
MilestonesOf(type) ==
    CASE type = "aurora" -> <<"notified_4h_at", "notified_30m_at">>
      [] type = "meteor" -> <<"notified_12h_at", "notified_1h_at">>
      [] type \in {"eclipse", "comet", "alignment"} ->
            <<"notified_24h_at", "notified_1h_at">>
      [] type = "moon" -> <<"notified_1h_at">>
      [] OTHER -> <<>>

\* Due without the test of the marker.
Due_NoNullCheck(event, m, t) == t >= event.start - LeadTime(m)

\* event.get(marker) is None and now_local >= start_local - timedelta(...),
\* for a user whose timezone is unset or "UTC" (the users of the loop
\* specifications); DueLocal is the test for the other zones.
Due(event, m, t) ==
    /\ event[m] = NULL
    /\ t >= event.start - LeadTime(m)

\* Branch with the second `if` of a branch written as `elif`: only the first due
\* milestone is handled in a pass.
Branch_Elif(event, ms, i, t, fail) ==
    LET due == {j \in i..Len(ms) : Due(event, ms[j], t)}
    IN  IF due = {}
        THEN [sent |-> {}, written |-> {}, raised |-> FALSE]
        ELSE LET j == CHOOSE x \in due : \A y \in due : x <= y
             IN  IF fail.at = j /\ fail.call = "send_push"
                 THEN [sent |-> {}, written |-> {}, raised |-> TRUE]
                 ELSE IF fail.at = j /\ fail.call = "sb_patch"
                 THEN [sent |-> {ms[j]}, written |-> {}, raised |-> TRUE]
                 ELSE [sent |-> {ms[j]}, written |-> {ms[j]}, raised |-> FALSE]

\* One pass through the branch of the if / elif chain taken for `event`, from its
\* i-th `if` on.  `fail` names the call that raises in this pass (at = 0: none).
\* sent: markers whose send_push returned; written: markers whose sb_patch
\* returned; raised: an exception left the for loop.
RECURSIVE Branch(_, _, _, _, _)
Branch(event, ms, i, t, fail) ==
    IF i > Len(ms)
    THEN [sent |-> {}, written |-> {}, raised |-> FALSE]
    ELSE IF ~Due(event, ms[i], t)
    THEN Branch(event, ms, i + 1, t, fail)
    ELSE IF fail.at = i /\ fail.call = "send_push"
    THEN [sent |-> {}, written |-> {}, raised |-> TRUE]
    ELSE IF fail.at = i /\ fail.call = "sb_patch"
    THEN [sent |-> {ms[i]}, written |-> {}, raised |-> TRUE]
    ELSE LET rest == Branch(event, ms, i + 1, t, fail)
         IN  [sent |-> {ms[i]} \cup rest.sent,
              written |-> {ms[i]} \cup rest.written,
              raised |-> rest.raised]

NoFail == [at |-> 0, call |-> "none"]
FailPoints == {NoFail} \cup [at : {1, 2}, call : {"send_push", "sb_patch"}]

\* PatchMarkers as a replacement of the row: the markers not written are emptied.
PatchMarkers_Put(table, id, written, t) ==
    IF id \notin DOMAIN table \/ written = {}
    THEN table
    ELSE [table EXCEPT ![id] =
            [f \in DOMAIN table[id] |->
                IF f \in written THEN t
                ELSE IF f \in Markers THEN NULL ELSE table[id][f]]]

\* sb_patch("user_events", {"id": eq.<id>}, {marker: _utc_now_iso()}) for each
\* marker of `written`; a filter that matches no row changes nothing.
PatchMarkers(table, id, written, t) ==
    IF id \notin DOMAIN table
    THEN table
    ELSE [table EXCEPT ![id] =
            [f \in DOMAIN table[id] |->
                IF f \in written THEN t ELSE table[id][f]]]

EmptySnapshot == [r \in {} |-> NULL]

\* The milestone loop between two cycles.  Besides the snapshot `events` and the
\* rows still to visit, a cycle remembers when its query ran, which rows the table
\* held then, and what it has pushed so far.
Idle == [pc |-> "sleep", events |-> EmptySnapshot, todo |-> {}, at |-> NULL,
         rows |-> {}, pushed |-> {}]

------------------------------------------------------------------------------
(* Request handlers *)

\* Caught with the exception leaving the loop: the thread ends.
Caught_ThreadEnds == [Idle EXCEPT !.pc = "ended"]

\* `except Exception as e: print(...)` around the body of the cycle: the
\* exception is dropped and the thread goes on to time.sleep.
Caught == Idle


\* POST /api/user/events: sb_post inserts a new row with every marker empty.
add_user_event(user_id, e) ==
    /\ user_events' = [r \in DOMAIN user_events \cup {next_id} |->
                          IF r = next_id THEN NewRow(user_id, e)
                                         ELSE user_events[r]]
    /\ next_id' = next_id + 1
    /\ sent' = {}
    /\ UNCHANGED <<now, users, sched, aur>>

\* DELETE /api/user/events: sb_delete removes every row of that user and event.
delete_user_event(user_id, event_id) ==
    LET gone == {r \in DOMAIN user_events :
                    /\ user_events[r].user_id = user_id
                    /\ user_events[r].event_id = event_id}
    IN  /\ gone # {}
        /\ user_events' = [r \in DOMAIN user_events \ gone |-> user_events[r]]
        /\ sent' = {}
        /\ UNCHANGED <<now, next_id, users, sched, aur>>

\* Time passes: between any two steps, and for any duration (sleep, downtime).
Tick ==
    /\ \E t \in (now + 1)..MaxTime : now' = t
    /\ sent' = {}
    /\ UNCHANGED <<user_events, next_id, users, sched, aur>>

------------------------------------------------------------------------------
(* scheduled_event_notification_job: the milestone loop *)

\* Fetched with start=gt.<now>.
Fetched_Strict == {r \in DOMAIN user_events : user_events[r].start > now}

\* Fetched without the start filter: every row of the table.
Fetched_AnyStart == DOMAIN user_events

\* sb_get("user_events", start=gte.<now>): the rows of the cycle's snapshot.
Fetched == {r \in DOMAIN user_events : user_events[r].start >= now}

SchedQuery ==
    /\ sched.pc = "sleep"
    /\ sched' = [pc |-> "run",
                 events |-> [r \in Fetched |-> user_events[r]],
                 todo |-> Fetched,
                 at |-> now,
                 rows |-> DOMAIN user_events,
                 pushed |-> {}]
    /\ sent' = {}
    /\ UNCHANGED <<now, user_events, next_id, users, aur>>

\* A start that datetime.fromisoformat cannot read (a word in a text column);
\* the filter of the store lets such a row through.
BadStart == MaxTime + 1

\* _parse_event_start: None when the start cannot be read.
_parse_event_start(event) == IF event.start = BadStart THEN NULL ELSE event.start

\* The body of `for event in events` for one row of the snapshot.
ProcessEvent(r, fail) ==
    /\ sched.pc = "run"
    /\ r \in sched.todo
    /\ LET event == sched.events[r]
           out == IF _parse_event_start(event) = NULL
                  THEN [sent |-> {}, written |-> {}, raised |-> FALSE]
                  ELSE Branch(event, MilestonesOf(event.type), 1, now, fail)
       IN  /\ fail.at = 0 \/ out.raised
           /\ sent' = {r} \X out.sent
           /\ user_events' = PatchMarkers(user_events, r, out.written, now)
           /\ sched' = IF out.raised
                        THEN Caught
                        ELSE [sched EXCEPT !.todo = @ \ {r},
                                           !.pushed = @ \cup ({r} \X out.sent)]
    /\ UNCHANGED <<now, next_id, users, aur>>

\* time.sleep(60 * 15) after the for loop has run through the snapshot.
SchedSleep ==
    /\ sched.pc = "run"
    /\ sched.todo = {}
    /\ sched' = Idle
    /\ sent' = {}
    /\ UNCHANGED <<now, user_events, next_id, users, aur>>

------------------------------------------------------------------------------
(* aurora_notification_job: the aurora loop *)

\* required_kp_for_lat with the first band from 65 degrees.
required_kp_for_lat_From65(lat) ==
    LET a == IF lat < 0 THEN -lat ELSE lat
    IN  IF a >= 65 THEN 3
        ELSE IF a >= 63 THEN 4
        ELSE IF a >= 60 THEN 5
        ELSE IF a >= 57 THEN 6
        ELSE IF a >= 54 THEN 7
        ELSE IF a >= 50 THEN 8
        ELSE 9

\* required_kp_for_lat with `>` for `>=`.
required_kp_for_lat_Strict(lat) ==
    LET a == IF lat < 0 THEN -lat ELSE lat
    IN  IF a > 67 THEN 3
        ELSE IF a > 63 THEN 4
        ELSE IF a > 60 THEN 5
        ELSE IF a > 57 THEN 6
        ELSE IF a > 54 THEN 7
        ELSE IF a > 50 THEN 8
        ELSE 9

\* required_kp_for_lat without abs.
required_kp_for_lat_Signed(lat) ==
    LET a == lat
    IN  IF a >= 67 THEN 3
        ELSE IF a >= 63 THEN 4
        ELSE IF a >= 60 THEN 5
        ELSE IF a >= 57 THEN 6
        ELSE IF a >= 54 THEN 7
        ELSE IF a >= 50 THEN 8
        ELSE 9

\* required_kp_for_lat: a is abs(float(lat)); lat in whole degrees.
required_kp_for_lat(lat) ==
    LET a == IF lat < 0 THEN -lat ELSE lat
    IN  IF a >= 67 THEN 3
        ELSE IF a >= 63 THEN 4
        ELSE IF a >= 60 THEN 5
        ELSE IF a >= 57 THEN 6
        ELSE IF a >= 54 THEN 7
        ELSE IF a >= 50 THEN 8
        ELSE 9

\* Likely with `>` for `>=`.
Likely_Strict(max_kp, lat) ==
    /\ max_kp # NULL
    /\ max_kp > 100 * required_kp_for_lat(lat)

\* Likely without the comparison with the required Kp.
Likely_AnyKp(max_kp, lat) == max_kp # NULL

\* get_aurora_forecast(lat)["likely"], given max_kp of summarize_kp_next_24h in
\* hundredths of a Kp unit (NULL: no sample in the next 24 hours).
Likely(max_kp, lat) ==
    /\ max_kp # NULL
    /\ max_kp >= 100 * required_kp_for_lat(lat)

\* AlreadyProcessed with `if processed:` for `if user_id in processed:`.
AlreadyProcessed_AnyUser(user_id, processed) == processed # {}

\* AlreadyProcessed without the `processed` set.
AlreadyProcessed_Never(user_id, processed) == FALSE

\* `if user_id in processed: continue`
AlreadyProcessed(user_id, processed) == user_id \in processed

\* The 12-hour cooldown check on the user of the snapshot row: datetime.utcnow()
\* minus the parsed last_aurora_push_at.
InCooldown(user, t) ==
    /\ user.last_aurora_push_at # NULL
    /\ t - user.last_aurora_push_at < Hours(12)

AurIdle == [pc |-> "sleep", now_iso |-> NULL, rows |-> EmptySnapshot, todo |-> {},
            processed |-> {}, evaluated |-> {}, pushed |-> {}]

\* `except Exception as e: print("Aurora job error:", e)`, then time.sleep.
AurCaught == AurIdle

\* now_iso = _utc_now_iso(); sb_get("user_events", type=eq.aurora,
\* select=user_id,users(id,lat,last_aurora_push_at)).
AuroraQuery ==
    /\ aur.pc = "sleep"
    /\ LET rows == {r \in DOMAIN user_events : user_events[r].type = "aurora"}
       IN  aur' = [pc |-> "run",
                   now_iso |-> now,
                   rows |-> [r \in rows |->
                               [id |-> user_events[r].user_id,
                                lat |-> users[user_events[r].user_id].lat,
                                last_aurora_push_at |->
                                  users[user_events[r].user_id].last_aurora_push_at]],
                   todo |-> rows,
                   processed |-> {},
                   evaluated |-> {},
                   pushed |-> {}]
    /\ sent' = {}
    /\ UNCHANGED <<now, user_events, next_id, users, sched>>

\* What the body of `for row in rows` does for one row: [skip, push, patch, raised].
\* max_kp is what the forecast finds; fail is the call that raises, if any.
AuroraBody(user, processed, t, max_kp, fail) ==
    IF \/ AlreadyProcessed(user.id, processed)
       \/ user.lat = NoLat
       \/ InCooldown(user, t)
    THEN [eval |-> FALSE, push |-> FALSE, patch |-> FALSE, raised |-> FALSE]
    ELSE IF fail = "get_aurora_forecast"
    THEN [eval |-> TRUE, push |-> FALSE, patch |-> FALSE, raised |-> TRUE]
    ELSE IF ~Likely(max_kp, user.lat)
    THEN [eval |-> TRUE, push |-> FALSE, patch |-> FALSE, raised |-> FALSE]
    ELSE IF fail = "send_push"
    THEN [eval |-> TRUE, push |-> FALSE, patch |-> FALSE, raised |-> TRUE]
    ELSE IF fail = "sb_patch"
    THEN [eval |-> TRUE, push |-> TRUE, patch |-> FALSE, raised |-> TRUE]
    ELSE [eval |-> TRUE, push |-> TRUE, patch |-> TRUE, raised |-> FALSE]

KpInputs == {NULL, 300, 500}
AuroraFails == {"none", "get_aurora_forecast", "send_push", "sb_patch"}

AuroraRow(r, max_kp, fail) ==
    /\ aur.pc = "run"
    /\ r \in aur.todo
    /\ LET user == aur.rows[r]
           out == AuroraBody(user, aur.processed, now, max_kp, fail)
       IN  /\ fail = "none" \/ out.raised
           /\ sent' = IF out.push THEN {<<r, "aurora_alert">>} ELSE {}
           /\ users' = IF out.patch
                        THEN [users EXCEPT ![user.id].last_aurora_push_at = aur.now_iso]
                        ELSE users
           /\ aur' = IF out.raised
                      THEN AurCaught
                      ELSE [aur EXCEPT
                              !.todo = @ \ {r},
                              !.processed = @ \cup {user.id},
                              !.evaluated = IF out.eval THEN @ \cup {r} ELSE @,
                              !.pushed = IF out.push THEN @ \cup {r} ELSE @]
    /\ UNCHANGED <<now, user_events, next_id, sched>>

\* time.sleep(60 * 60) after the for loop has run through the rows.
AuroraSleep ==
    /\ aur.pc = "run"
    /\ aur.todo = {}
    /\ aur' = AurIdle
    /\ sent' = {}
    /\ UNCHANGED <<now, user_events, next_id, users, sched>>

\* The instants the clock takes under the aurora specifications: a first cycle,
\* and the last instant inside and the first instant past the cooldown of a push
\* made in it.
AuroraInstants == {0, Hours(12) - M30, Hours(12)}

AuroraTick ==
    /\ \E t \in AuroraInstants : t > now /\ now' = t
    /\ sent' = {}
    /\ UNCHANGED <<user_events, next_id, users, sched, aur>>

------------------------------------------------------------------------------
(* send_push: the sends to the tokens of one user, and the cycle that calls it *)

Tokens == {"t1", "t2", "t3"}

NoTokens == [t \in {} |-> "u1"]

\* What messaging.send(message) does: returns, or raises one of these.
SendOutcomes == {"ok", "UnregisteredError", "InvalidArgumentError", "Exception"}

SpIdle == [pc |-> "idle", user |-> "u1", tokens |-> {}, todo |-> {},
           attempted |-> {}, failed |-> {}, result |-> "none",
           store_raised |-> FALSE]

\* The variables of the loops and of the record store proper.
engine == <<now, user_events, next_id, users, sched, aur, sent, history, visit, caught,
            ord, kpfile, kpcall,
                   wxcache, wxcall, band, fc, vis, up, moon, tz>>

\* push_subscribe: sb_post("push_tokens", ...); a token already in the table is
\* refused by its unique key (409) and the table stays as it is.
push_subscribe(user_id, token) ==
    /\ token \notin DOMAIN push_tokens
    /\ push_tokens' = [t \in DOMAIN push_tokens \cup {token} |->
                         IF t = token THEN user_id ELSE push_tokens[t]]
    /\ UNCHANGED <<engine, sp, pcycle>>

\* A cycle of a loop finds these users to push.
PushCycleStart ==
    /\ pcycle.pc = "sleep"
    /\ sp.pc = "idle"
    /\ \E us \in SUBSET UserIds :
          /\ us # {}
          /\ pcycle' = [pc |-> "run", todo |-> us, done |-> {}]
    /\ UNCHANGED <<engine, push_tokens, sp>>

\* send_push(user_id, ...) up to its for loop: sb_get("push_tokens",
\* user_id=eq.<user_id>), which raises (the exception ends the cycle of the
\* caller) or returns the tokens of the user.
PushCall(user_id, get_ok) ==
    /\ pcycle.pc = "run"
    /\ sp.pc = "idle"
    /\ user_id \in pcycle.todo
    /\ IF get_ok
       THEN LET tokens == {t \in DOMAIN push_tokens : push_tokens[t] = user_id}
            IN  /\ sp' = [SpIdle EXCEPT !.pc = "send", !.user = user_id,
                                         !.tokens = tokens, !.todo = tokens]
                /\ UNCHANGED pcycle
       ELSE /\ sp' = [SpIdle EXCEPT !.user = user_id, !.result = "raised",
                                     !.store_raised = TRUE]
            /\ pcycle' = [pcycle EXCEPT !.pc = "sleep"]
    /\ UNCHANGED <<engine, push_tokens>>

\* AfterSend with no `except Exception` after the two named clauses.
AfterSend_Uncaught(outcome, del_ok) ==
    IF outcome = "ok" THEN "next"
    ELSE IF outcome = "Exception" THEN "raise"
    ELSE IF del_ok THEN "next" ELSE "raise"

\* The try / except around messaging.send: an UnregisteredError or
\* InvalidArgumentError is caught and the token deleted with sb_delete, which is
\* inside the except clause and may raise out of send_push; any other Exception
\* is caught and printed.
AfterSend(outcome, del_ok) ==
    IF outcome \in {"UnregisteredError", "InvalidArgumentError"}
    THEN IF del_ok THEN "next" ELSE "raise"
    ELSE "next"

\* One iteration of `for token in tokens`.
PushSend(token, outcome, del_ok) ==
    /\ sp.pc = "send"
    /\ token \in sp.todo
    /\ del_ok \/ outcome \in {"UnregisteredError", "InvalidArgumentError"}
    /\ LET after == AfterSend(outcome, del_ok)
           deleted == /\ outcome \in {"UnregisteredError", "InvalidArgumentError"}
                      /\ del_ok
           step == [sp EXCEPT !.todo = @ \ {token},
                              !.attempted = @ \cup {token},
                              !.failed = IF outcome = "ok" THEN @ ELSE @ \cup {token}]
       IN  /\ push_tokens' = IF deleted
                              THEN [t \in DOMAIN push_tokens \ {token} |-> push_tokens[t]]
                              ELSE push_tokens
           /\ IF after = "next"
              THEN sp' = step /\ UNCHANGED pcycle
              ELSE /\ sp' = [step EXCEPT !.pc = "idle", !.result = "raised",
                                         !.store_raised =
                                            outcome # "Exception"]
                   /\ pcycle' = [pcycle EXCEPT !.pc = "sleep"]
    /\ UNCHANGED engine

\* send_push returns (no token, or the for loop has run through); the caller
\* goes on to its next user.
PushReturn ==
    /\ sp.pc = "send"
    /\ sp.todo = {}
    /\ sp' = [sp EXCEPT !.pc = "idle", !.result = "returned"]
    /\ pcycle' = [pcycle EXCEPT !.todo = @ \ {sp.user}, !.done = @ \cup {sp.user}]
    /\ UNCHANGED <<engine, push_tokens>>

\* The cycle has been through its users.
PushCycleEnd ==
    /\ pcycle.pc = "run"
    /\ pcycle.todo = {}
    /\ sp.pc = "idle"
    /\ pcycle' = [pcycle EXCEPT !.pc = "sleep"]
    /\ UNCHANGED <<engine, push_tokens, sp>>

------------------------------------------------------------------------------
(* One cycle of each loop as a function of its snapshot and iteration order *)

OrderRows == 2        \* rows of the snapshot

NoRun == [sent |-> {}, written |-> {}, raised |-> FALSE]

NoOrder == [loop |-> "none", pc |-> 0]

\* `for event in events` of the milestone loop over the snapshot in the order
\* given, from the i-th row on, at time t; fails[r] is the call that raises when
\* row r is taken, and the exception ends the cycle.
RECURSIVE RunMilestones(_, _, _, _, _)
RunMilestones(events, order, i, t, fails) ==
    IF i > Len(order)
    THEN NoRun
    ELSE LET r == order[i]
             out == Branch(events[r], MilestonesOf(events[r].type), 1, t, fails[r])
             here == [sent |-> {r} \X out.sent,
                      written |-> {r} \X out.written,
                      raised |-> out.raised]
         IN  IF out.raised
             THEN here
             ELSE LET rest == RunMilestones(events, order, i + 1, t, fails)
                  IN  [sent |-> here.sent \cup rest.sent,
                       written |-> here.written \cup rest.written,
                       raised |-> rest.raised]

\* `for row in rows` of the aurora loop likewise; sent and written are the users
\* pushed and the users whose last_aurora_push_at is written.
RECURSIVE RunAurora(_, _, _, _, _, _, _)
RunAurora(rows, order, i, processed, t, max_kp, fails) ==
    IF i > Len(order)
    THEN NoRun
    ELSE LET user == rows[order[i]]
             out == AuroraBody(user, processed, t, max_kp, fails[order[i]])
             here == [sent |-> IF out.push THEN {user.id} ELSE {},
                      written |-> IF out.patch THEN {user.id} ELSE {},
                      raised |-> out.raised]
         IN  IF out.raised
             THEN here
             ELSE LET rest == RunAurora(rows, order, i + 1, processed \cup {user.id},
                                        t, max_kp, fails)
                  IN  [sent |-> here.sent \cup rest.sent,
                       written |-> here.written \cup rest.written,
                       raised |-> rest.raised]

\* The orders in which the store may return the rows.
Orders == {o \in [1..OrderRows -> 1..OrderRows] :
              \A i, j \in 1..OrderRows : o[i] = o[j] => i = j}

\* The cycle run in the order the rows are numbered (k = 1) and in ord.order
\* (k = 2).
OrderRun(k) ==
    /\ ord.pc = k
    /\ LET order == IF k = 1 THEN [i \in 1..OrderRows |-> i] ELSE ord.order
           out == IF ord.loop = "milestone"
                  THEN RunMilestones(ord.rows, order, 1, ord.t, ord.fails)
                  ELSE RunAurora(ord.rows, order, 1, {}, ord.t, ord.max_kp, ord.fails)
       IN  ord' = [ord EXCEPT !.pc = k + 1, !.run[k] = out]
    /\ UNCHANGED <<now, user_events, next_id, users, sched, aur, sent, history,
                   visit, caught, push_tokens, sp, pcycle, kpfile, kpcall,
                   wxcache, wxcall, band, fc, vis, up, moon, tz>>

------------------------------------------------------------------------------
(* fetch_noaa_kp_forecast_cached: the Kp table behind a one-hour file cache *)

\* The threads that call it: the aurora loop (through get_aurora_forecast) and a
\* request handler (/api/aurora, /api/upcoming).
Callers == {"job", "req"}

\* The documents NOAA serves.
KpTables == {"kpA", "kpB"}

Absent == [state |-> "absent", cached_at |-> NULL, kp_forecast |-> "none"]
Torn == [state |-> "torn", cached_at |-> NULL, kp_forecast |-> "none"]
None == [state |-> "none", cached_at |-> NULL, kp_forecast |-> "none"]
Entry(at, table) == [state |-> "entry", cached_at |-> at, kp_forecast |-> table]

NoCall == [pc |-> "idle", text |-> "none", cached |-> None, table |-> "none",
           stamp |-> NULL, net |-> FALSE, outcome |-> "none", ret |-> "none"]

AURORA_CACHE_TTL == Hours(1)

\* _load_aurora_cache: None if the file does not exist or json.loads fails on
\* what it holds.
_load_aurora_cache(file) == IF file.state = "entry" THEN file ELSE None

\* Fresh with `<=` for `<`.
Fresh_Inclusive(cached, t) ==
    /\ cached.state = "entry"
    /\ t - cached.cached_at <= AURORA_CACHE_TTL

\* `if cached:` ... `age < AURORA_CACHE_TTL_SECONDS`
Fresh(cached, t) ==
    /\ cached.state = "entry"
    /\ t - cached.cached_at < AURORA_CACHE_TTL

\* What urlopen / read / decode / json.loads does: "ok", or raises URLError (no
\* connection, refused, connect timeout, HTTPError for a non-2xx status),
\* TimeoutError (the read times out) or ValueError (a body that is not UTF-8 or
\* not JSON).
FetchOutcomes == {"ok", "URLError", "TimeoutError", "ValueError"}

\* The call up to `# Fetch fresh`: read the file (text is what the read finds),
\* load the cache from it, return it if fresh.
CacheCall(c) ==
    /\ kpcall[c].pc \in {"idle", "done"}
    /\ LET cached == _load_aurora_cache(kpfile)
       IN  kpcall' = [kpcall EXCEPT ![c] =
              IF Fresh(cached, now)
              THEN [NoCall EXCEPT !.pc = "done", !.text = kpfile.state,
                                  !.cached = cached, !.ret = cached.kp_forecast]
              ELSE [NoCall EXCEPT !.pc = "fetch", !.text = kpfile.state,
                                  !.cached = cached]]
    /\ UNCHANGED kpfile

\* The try around urlopen ... json.loads, and `except URLError`.
CacheFetch(c, outcome, table) ==
    /\ kpcall[c].pc = "fetch"
    /\ LET call == [kpcall[c] EXCEPT !.net = TRUE, !.outcome = outcome]
       IN  kpcall' = [kpcall EXCEPT ![c] =
              IF outcome = "ok"
              THEN [call EXCEPT !.pc = "save", !.table = table]
              ELSE IF outcome = "URLError" /\ call.cached.state = "entry"
              THEN [call EXCEPT !.pc = "done", !.ret = call.cached.kp_forecast]
              ELSE [call EXCEPT !.pc = "done", !.ret = "raise"]]
    /\ UNCHANGED kpfile

\* _save_aurora_cache, first half: the payload is built (cached_at is
\* _utc_now_iso()) and write_text opens the file for writing, which empties it.
CacheOpen(c) ==
    /\ kpcall[c].pc = "save"
    /\ kpfile' = Torn
    /\ kpcall' = [kpcall EXCEPT ![c].pc = "write", ![c].stamp = now]

\* _save_aurora_cache, second half: the text is written and the file closed;
\* then `return kp_forecast`.  With another writer between its open and its
\* write, the two texts land on top of each other and the file may be garbled.
CacheWrite(c, garbled) ==
    /\ kpcall[c].pc = "write"
    /\ garbled => \E d \in Callers \ {c} : kpcall[d].pc = "write"
    /\ kpfile' = IF garbled THEN Torn ELSE Entry(kpcall[c].stamp, kpcall[c].table)
    /\ kpcall' = [kpcall EXCEPT ![c].pc = "done", ![c].ret = kpcall[c].table]

\* The steps of caller c.
CacheStep(c) ==
    /\ \/ CacheCall(c)
       \/ \E outcome \in FetchOutcomes, table \in KpTables :
             (outcome = "ok" \/ table = "kpA") /\ CacheFetch(c, outcome, table)
       \/ CacheOpen(c)
       \/ \E garbled \in BOOLEAN : CacheWrite(c, garbled)
    /\ UNCHANGED <<now, user_events, next_id, users, sched, aur, sent, history,
                   visit, caught, push_tokens, sp, pcycle, ord, wxcache, wxcall, band, fc, vis, up, moon, tz>>

------------------------------------------------------------------------------
(* weather.py: get_weather_forecast behind a one-hour file cache per grid cell *)

\* Coordinates of a request, in thousandths of a degree: two points of Berlin
\* that round to the same hundredths, and a point of Greenwich just west of
\* the prime meridian.
WxPoint(lat, lon) == [lat |-> lat, lon |-> lon]

WxPoints ==
    {WxPoint(52519, 13401), WxPoint(52521, 13404),
     WxPoint(51477, 0 - 1)}

\* round(x, 2) as the f-string formats it: the hundredths, and the sign, which a
\* negative value keeps when it rounds to zero ("-0.0").  A tie goes to the
\* even hundredth.
Round2(x) ==
    LET m == IF x < 0 THEN 0 - x ELSE x
        h == m \div 10
        r == m % 10
    IN  [neg |-> x < 0,
         hundredths |-> IF r > 5 \/ (r = 5 /\ h % 2 = 1) THEN h + 1 ELSE h]

\* _cache_path: the name of the cache file of (lat, lon).
_cache_path(lat, lon) == <<Round2(lat), Round2(lon)>>

\* The cache files of the points of the model.
Cells == {_cache_path(p.lat, p.lon) : p \in WxPoints}

\* The documents Open-Meteo serves.
WxDocs == {"wxA", "wxB"}

WxAbsent == [state |-> "absent", generated_ts |-> NULL, doc |-> "none", lat |-> 0, lon |-> 0]
WxNone == [state |-> "none", generated_ts |-> NULL, doc |-> "none", lat |-> 0, lon |-> 0]

\* The file _save_cache writes: the document of _fetch_open_meteo with the
\* lat and lon of the request that fetched it, and generated_ts.
WxEntry(ts, doc, lat, lon) ==
    [state |-> "entry", generated_ts |-> ts, doc |-> doc, lat |-> lat, lon |-> lon]

\* A call: the coordinates asked for, the file looked up, whether the provider
\* was called, and the document returned (ret, with its lat, lon and
\* generated_ts).
NoWxCall == [pc |-> "idle", lat |-> 0, lon |-> 0, cell |-> "none", net |-> FALSE,
             outcome |-> "none", ret |-> "none", ret_lat |-> 0, ret_lon |-> 0,
             ret_ts |-> NULL]

CACHE_TTL == Hours(1)

\* _load_cache with `<=` for `<`.
_load_cache_Inclusive(file, t) ==
    IF file.state = "entry" /\ t - file.generated_ts <= CACHE_TTL THEN file ELSE WxNone

\* _load_cache: the stored document if it is younger than CACHE_TTL, else None.
_load_cache(file, t) ==
    IF file.state = "entry" /\ t - file.generated_ts < CACHE_TTL THEN file ELSE WxNone

\* _fetch_open_meteo returns a document ("ok") or raises: requests.get fails or
\* times out, raise_for_status on a non-2xx answer, r.json() on a bad body.
WxOutcomes == {"ok", "ConnectionError", "Timeout", "HTTPError", "ValueError"}

\* get_weather_forecast(lat, lon).
get_weather_forecast(lat, lon, outcome, doc) ==
    LET cell == _cache_path(lat, lon)
        cached == _load_cache(wxcache[cell], now)
        call == [NoWxCall EXCEPT !.pc = "done", !.lat = lat, !.lon = lon,
                                 !.cell = cell]
    IN  IF cached.state = "entry"
        THEN /\ wxcall' = [call EXCEPT !.ret = cached.doc, !.ret_lat = cached.lat,
                                       !.ret_lon = cached.lon,
                                       !.ret_ts = cached.generated_ts]
             /\ UNCHANGED wxcache
        ELSE IF outcome = "ok"
        THEN /\ wxcache' = [wxcache EXCEPT ![cell] = WxEntry(now, doc, lat, lon)]
             /\ wxcall' = [call EXCEPT !.net = TRUE, !.outcome = outcome,
                                       !.ret = doc, !.ret_lat = lat,
                                       !.ret_lon = lon, !.ret_ts = now]
        ELSE /\ wxcall' = [call EXCEPT !.net = TRUE, !.outcome = outcome,
                                       !.ret = "raise"]
             /\ UNCHANGED wxcache

WeatherCall ==
    /\ \E p \in WxPoints, outcome \in WxOutcomes, doc \in WxDocs :
          /\ outcome = "ok" \/ doc = "wxA"
          /\ get_weather_forecast(p.lat, p.lon, outcome, doc)
    /\ UNCHANGED <<now, user_events, next_id, users, sched, aur, sent, history,
                   visit, caught, push_tokens, sp, pcycle, ord, kpfile, kpcall, band, fc, vis, up, moon, tz>>

------------------------------------------------------------------------------
(* required_kp_for_lat applied to latitudes of both hemispheres *)

\* Latitudes run over -MaxLat .. MaxLat whole degrees.
MaxLat == 90

NoBand == [pc |-> "idle", a |-> 0, b |-> 0, ra |-> NULL, rb |-> NULL]

BandApply ==
    /\ band.pc = "in"
    /\ band' = [band EXCEPT !.pc = "out",
                            !.ra = required_kp_for_lat(band.a),
                            !.rb = required_kp_for_lat(band.b)]
    /\ UNCHANGED <<now, user_events, next_id, users, sched, aur, sent, history,
                   visit, caught, push_tokens, sp, pcycle, ord, kpfile, kpcall,
                   wxcache, wxcall, fc, vis, up, moon, tz>>

------------------------------------------------------------------------------
(* summarize_kp_next_24h and get_aurora_forecast on a given Kp table *)

\* A table has at most MaxKpRows rows after its header.
MaxKpRows == 3

\* A row of the table: the number of its fields, its time_tag as the time it
\* parses to (NULL: strptime raises) and its kp in hundredths (NULL: float
\* raises).
KpRow(shape, t_str, kp_str) == [shape |-> shape, t_str |-> t_str, kp_str |-> kp_str]

\* ["time_tag", "kp", "observed", "noaa_scale"]
Header == KpRow(4, NULL, NULL)

NoSummary == [max_kp |-> NULL, max_entry |-> NULL, raised |-> FALSE]

\* `(max_kp is None) or (kp > max_kp)` with `>=` for `>`.
Better_OrEqual(kp, max_kp) == max_kp = NULL \/ kp >= max_kp

\* `(max_kp is None) or (kp > max_kp)`
Better(kp, max_kp) == max_kp = NULL \/ kp > max_kp

\* The loop of summarize_kp_next_24h from row i on; t is utcnow().  The row is
\* unpacked into four names before the try.
RECURSIVE SummarizeFrom(_, _, _, _)
SummarizeFrom(kp_rows, i, t, acc) ==
    IF i > Len(kp_rows) THEN acc
    ELSE LET row == kp_rows[i]
         IN  IF row.shape # 4 THEN [acc EXCEPT !.raised = TRUE]
             ELSE IF row.t_str = NULL THEN SummarizeFrom(kp_rows, i + 1, t, acc)
             ELSE IF ~(t <= row.t_str /\ row.t_str <= t + Hours(24))
             THEN SummarizeFrom(kp_rows, i + 1, t, acc)
             ELSE IF row.kp_str = NULL THEN SummarizeFrom(kp_rows, i + 1, t, acc)
             ELSE IF Better(row.kp_str, acc.max_kp)
             THEN SummarizeFrom(kp_rows, i + 1, t,
                      [acc EXCEPT !.max_kp = row.kp_str,
                                  !.max_entry = [time_tag |-> <<row.t_str, "Z">>,
                                                 kp |-> row.kp_str]])
             ELSE SummarizeFrom(kp_rows, i + 1, t, acc)

\* summarize_kp_next_24h: `for row in kp_rows[1:]`
summarize_kp_next_24h(kp_rows, t) == SummarizeFrom(kp_rows, 2, t, NoSummary)

\* t.strftime("%Y-%m-%d")
DateOf(t) == t \div Hours(24)

NoScan == [next_possible |-> NULL, raised |-> FALSE]

\* `t > now and kp >= req_kp` with `>=` for `>`.
Meets_AtNow(row, t, req_kp) == row.t_str >= t /\ row.kp_str >= 100 * req_kp

\* `t > now and kp >= req_kp`
Meets(row, t, req_kp) == row.t_str > t /\ row.kp_str >= 100 * req_kp

\* The next_possible loop of get_aurora_forecast from row i on.  The row is
\* unpacked into `t_str, kp_str, *_` before the try.
RECURSIVE ScanFrom(_, _, _, _)
ScanFrom(kp_rows, i, t, req_kp) ==
    IF i > Len(kp_rows) THEN NoScan
    ELSE LET row == kp_rows[i]
         IN  IF row.shape < 2 THEN [NoScan EXCEPT !.raised = TRUE]
             ELSE IF row.t_str = NULL \/ row.kp_str = NULL
             THEN ScanFrom(kp_rows, i + 1, t, req_kp)
             ELSE IF Meets(row, t, req_kp)
             THEN [NoScan EXCEPT !.next_possible = DateOf(row.t_str)]
             ELSE ScanFrom(kp_rows, i + 1, t, req_kp)

Raised == [raised |-> TRUE]

\* get_aurora_forecast(lat) on the table kp_rows at time t.
get_aurora_forecast(kp_rows, t, lat) ==
    LET summary == summarize_kp_next_24h(kp_rows, t)
        req_kp == required_kp_for_lat(lat)
        scan == ScanFrom(kp_rows, 2, t, req_kp)
    IN  IF summary.raised \/ scan.raised THEN Raised
        ELSE [lat |-> lat,
              required_kp |-> req_kp,
              kp_max_next_24h |-> summary.max_kp,
              likely |-> Likely(summary.max_kp, lat),
              next_possible |-> scan.next_possible,
              peak |-> summary.max_entry,
              raised |-> FALSE]

NoForecast == [pc |-> "idle"]

ForecastApply ==
    /\ fc.pc = "in"
    /\ fc' = [pc |-> "out", kp_rows |-> fc.kp_rows, t |-> fc.t, lat |-> fc.lat,
              summary |-> summarize_kp_next_24h(fc.kp_rows, fc.t),
              forecast |-> get_aurora_forecast(fc.kp_rows, fc.t, fc.lat)]
    /\ UNCHANGED <<now, user_events, next_id, users, sched, aur, sent, history,
                   visit, caught, push_tokens, sp, pcycle, ord, kpfile, kpcall,
                   wxcache, wxcall, band, vis, up, moon, tz>>

------------------------------------------------------------------------------
(* estimate_visibility on a given event and weather series *)

\* A weather series has at most MaxHours hours.
MaxHours == 2

VisTypes == {"meteor", "eclipse", "comet", "aurora", "moon"}

\* BASE_EVENT_CHANCE.get(event["type"], 50)
BASE_EVENT_CHANCE(type) ==
    CASE type = "meteor" -> 65
      [] type = "eclipse" -> 80
      [] type = "comet" -> 55
      [] type = "aurora" -> 70
      [] OTHER -> 50

\* The filter of _weather_score_for_event without `h["is_night"]`.
Relevant_AnyHour(h, event) ==
    event.start <= h.time /\ h.time <= event.end + Hours(24)

\* The filter of _weather_score_for_event.
Relevant(h, event) ==
    /\ h.is_night
    /\ event.start <= h.time /\ h.time <= event.end + Hours(24)

RECURSIVE SumOf(_, _)
SumOf(hours, field) ==
    IF hours = <<>> THEN 0 ELSE Head(hours)[field] + SumOf(Tail(hours), field)

NoStats == [n |-> 0, cloud |-> 0, precip |-> 0]

\* _weather_score_for_event: None (n = 0) or the means of cloud and precip over
\* the relevant hours, kept as their sums and the number of hours.
_weather_score_for_event(event, hours) ==
    LET IsRelevant(h) == Relevant(h, event)
        relevant == SelectSeq(hours, IsRelevant)
    IN  IF relevant = <<>> THEN NoStats
        ELSE [n |-> Len(relevant), cloud |-> SumOf(relevant, "cloud"),
              precip |-> SumOf(relevant, "precip")]

\* The cloud branch with `<=` for `<`.
CloudStep_Inclusive(stats) ==
    IF stats.cloud <= 20 * stats.n THEN [add |-> 15, part |-> "clear skies expected"]
    ELSE IF stats.cloud <= 50 * stats.n THEN [add |-> 5, part |-> "partly cloudy skies"]
    ELSE IF stats.cloud <= 75 * stats.n THEN [add |-> 0 - 10, part |-> "mostly cloudy"]
    ELSE [add |-> 0 - 25, part |-> "heavy cloud cover"]

\* The cloud branch: avg_cloud < 20, < 50, < 75, else.
CloudStep(stats) ==
    IF stats.cloud < 20 * stats.n THEN [add |-> 15, part |-> "clear skies expected"]
    ELSE IF stats.cloud < 50 * stats.n THEN [add |-> 5, part |-> "partly cloudy skies"]
    ELSE IF stats.cloud < 75 * stats.n THEN [add |-> 0 - 10, part |-> "mostly cloudy"]
    ELSE [add |-> 0 - 25, part |-> "heavy cloud cover"]

\* The precipitation branch: avg_precip > 40, > 20, else nothing.
PrecipStep(stats) ==
    IF stats.precip > 40 * stats.n THEN [add |-> 0 - 20, parts |-> <<"rain likely">>]
    ELSE IF stats.precip > 20 * stats.n THEN [add |-> 0 - 10, parts |-> <<"chance of rain">>]
    ELSE [add |-> 0, parts |-> <<>>]

\* str.capitalize on the joined parts: the first letter of the first part.
Capitalize(part) ==
    CASE part = "clear skies expected" -> "Clear skies expected"
      [] part = "partly cloudy skies" -> "Partly cloudy skies"
      [] part = "mostly cloudy" -> "Mostly cloudy"
      [] part = "heavy cloud cover" -> "Heavy cloud cover"
      [] OTHER -> part

Max(a, b) == IF a >= b THEN a ELSE b
Min(a, b) == IF a <= b THEN a ELSE b

\* estimate_visibility(event, lat, lon, weather); reason is the list of its
\* comma-separated parts.
estimate_visibility(event, hours) ==
    LET base == BASE_EVENT_CHANCE(event.type)
        stats == _weather_score_for_event(event, hours)
        score == IF stats.n = 0 THEN base
                 ELSE base + CloudStep(stats).add + PrecipStep(stats).add
        reason_parts == IF stats.n = 0 THEN <<>>
                        ELSE <<CloudStep(stats).part>> \o PrecipStep(stats).parts
    IN  [chance |-> Max(0, Min(100, score)),
         reason |-> IF reason_parts = <<>> THEN <<"visibility uncertain">>
                    ELSE <<Capitalize(Head(reason_parts))>> \o Tail(reason_parts)]

NoVis == [pc |-> "idle"]

VisApply ==
    /\ vis.pc = "in"
    /\ vis' = [pc |-> "out", event |-> vis.event, hours |-> vis.hours,
               out |-> estimate_visibility(vis.event, vis.hours)]
    /\ UNCHANGED <<now, user_events, next_id, users, sched, aur, sent, history,
                   visit, caught, push_tokens, sp, pcycle, ord, kpfile, kpcall,
                   wxcache, wxcall, band, fc, up, moon, tz>>

------------------------------------------------------------------------------
(* upcoming_events: the feed of /api/upcoming *)

\* The sources hold at most MaxSources events.
MaxSources == 3

\* `enriched[:50]`, with the cap of 50 scaled down to FeedCap.
FeedCap == 2

VISIBILITY_WINDOW_DAYS == 28

Days(n) == n * Hours(24)

\* timedelta.days: whole days, rounded down (also for a negative difference).
DaysIn(d) == IF d >= 0 THEN d \div Days(1) ELSE 0 - ((Days(1) - 1 - d) \div Days(1))

\* What the source of an event keeps at time t: get_eclipse_events,
\* get_meteor_events and get_alignment_events keep _is_future (start >= now),
\* get_comet_events keeps end >= now, get_special_moon_events builds the events of
\* today and later.
SourceKeeps(e, t) ==
    CASE e.type \in {"eclipse", "meteor", "alignment"} -> e.start >= t
      [] e.type = "comet" -> e.end >= t
      [] OTHER -> TRUE

NoAnnotation == [chance |-> NULL, reason |-> <<>>]

\* e["visibility"] as the source gives it: the catalog's own value unless an
\* annotation has been stored on the event.
Given(e) == IF "visibility" \in DOMAIN e THEN e.visibility ELSE NoAnnotation

\* The loop body of upcoming_events for one event: dropped (<<>>) or appended,
\* with a visibility annotation or without; hours is the weather series, <<>>
\* with weather None.
Enrich(e, t, has_weather, hours) ==
    IF e.end + Days(1) < t THEN <<>>
    ELSE IF has_weather /\ DaysIn(e.start - t) <= VISIBILITY_WINDOW_DAYS
    THEN <<[type |-> e.type, start |-> e.start, end |-> e.end,
            visibility |-> estimate_visibility(e, hours)]>>
    ELSE <<[type |-> e.type, start |-> e.start, end |-> e.end,
            visibility |-> Given(e)]>>

RECURSIVE EnrichAll(_, _, _, _)
EnrichAll(events, t, has_weather, hours) ==
    IF events = <<>> THEN <<>>
    ELSE Enrich(Head(events), t, has_weather, hours)
             \o EnrichAll(Tail(events), t, has_weather, hours)

\* list.sort keeps equal keys in their order: x goes behind the elements that
\* do not start later.
RECURSIVE InsertByStart(_, _)
InsertByStart(sorted, x) ==
    IF sorted = <<>> THEN <<x>>
    ELSE IF Head(sorted).start <= x.start
    THEN <<Head(sorted)>> \o InsertByStart(Tail(sorted), x)
    ELSE <<x>> \o sorted

RECURSIVE SortFrom(_, _)
SortFrom(events, sorted) ==
    IF events = <<>> THEN sorted
    ELSE SortFrom(Tail(events), InsertByStart(sorted, Head(events)))

\* The feed left in the order of its sources.
SortByStart_Unsorted(events) == events

\* enriched.sort(key=lambda e: e["start"]); every start is written
\* YYYY-MM-DDTHH:MM:SSZ, so the order of the strings is the order of the times.
SortByStart(events) == SortFrom(events, <<>>)

\* aurora_forecast_to_upcoming_event with an event for every forecast.
aurora_forecast_to_upcoming_event_Always(forecast) ==
    LET day == IF forecast.kp_max_next_24h = NULL THEN 0
               ELSE DateOf(forecast.peak.time_tag[1])
    IN  <<[type |-> "aurora", start |-> Days(day), end |-> Days(day + 1) - M30]>>

\* aurora_forecast_to_upcoming_event: None (<<>>) unless the forecast is likely;
\* else an event of the day of time_tag[:10], from 00:00:00Z to the end of the
\* day.
aurora_forecast_to_upcoming_event(forecast) ==
    IF ~forecast.likely THEN <<>>
    ELSE LET day == DateOf(forecast.peak.time_tag[1])
         IN  <<[type |-> "aurora", start |-> Days(day), end |-> Days(day + 1) - M30]>>

\* upcoming_events at time t on the raw events of the sources; has_weather: lat
\* and lon are given, with the weather and the aurora forecast fetched for them.
upcoming_events(sources, t, has_weather, hours, forecast) ==
    LET Kept(e) == SourceKeeps(e, t)
        all_events == SelectSeq(sources, Kept)
                          \o (IF has_weather
                              THEN aurora_forecast_to_upcoming_event(forecast)
                              ELSE <<>>)
        enriched == EnrichAll(all_events, t, has_weather, hours)
        sorted == SortByStart(enriched)
    IN  [enriched |-> enriched,
         feed |-> SubSeq(sorted, 1, Min(FeedCap, Len(sorted)))]

\* The tables after a request whose loop writes e["visibility"] on the events of
\* get_comet_events and get_alignment_events themselves (no `e = dict(e)`).
HeldAfter_InPlace(sources, t, has_weather, hours) ==
    [i \in 1..Len(sources) |->
        IF /\ sources[i].type \in {"comet", "alignment"}
           /\ SourceKeeps(sources[i], t)
           /\ Enrich(sources[i], t, has_weather, hours) # <<>>
        THEN Enrich(sources[i], t, has_weather, hours)[1]
        ELSE sources[i]]

\* The catalog tables after a request: the loop works on `e = dict(e)`, a copy
\* of each event, and the sources build or filter lists without writing to the
\* tables.
HeldAfter(sources, t, has_weather, hours) == sources

NoUpcoming == [pc |-> "idle"]

NoMoon == [pc |-> "idle"]

NoTz == [pc |-> "idle"]

UpcomingApply ==
    /\ up.pc = "in"
    /\ up' = [pc |-> "out",
              sources |-> HeldAfter(up.sources, up.t, up.has_weather, up.hours),
              t |-> up.t, before |-> up.before,
              has_weather |-> up.has_weather, hours |-> up.hours,
              forecast |-> up.forecast,
              out |-> upcoming_events(up.sources, up.t, up.has_weather, up.hours,
                                      up.forecast)]
    /\ UNCHANGED <<now, user_events, next_id, users, sched, aur, sent, history,
                   visit, caught, push_tokens, sp, pcycle, ord, kpfile, kpcall,
                   wxcache, wxcall, band, fc, vis, moon, tz>>

\* The next request arrives, with coordinates or without, on the tables as the
\* last request left them; before: an earlier feed carried an annotation.
UpcomingRequest ==
    /\ up.pc = "out"
    /\ \E has_weather \in BOOLEAN :
        \E forecast \in {get_aurora_forecast(
                             <<Header, KpRow(4, 0, 300), KpRow(4, Hours(3), 600)>>,
                             0, lat) : lat \in {65, 40}} :
          up' = [pc |-> "in", sources |-> up.sources, t |-> up.t,
                 before |-> (up.before \/ \E i \in 1..Len(up.out.feed) :
                                             up.out.feed[i].visibility # NoAnnotation),
                 has_weather |-> has_weather,
                 hours |-> IF has_weather THEN <<[is_night |-> TRUE, time |-> 0,
                                                  cloud |-> 10, precip |-> 0]>>
                           ELSE <<>>,
                 forecast |-> IF has_weather THEN forecast
                              ELSE get_aurora_forecast(<<Header>>, 0, 0)]
    /\ UNCHANGED <<now, user_events, next_id, users, sched, aur, sent, history,
                   visit, caught, push_tokens, sp, pcycle, ord, kpfile, kpcall,
                   wxcache, wxcall, band, fc, vis, moon, tz>>

------------------------------------------------------------------------------
(* Specifications *)

Lats == {NoLat, 65}

NoVisit == [r |-> 0, kp |-> NULL]

InitPush ==
    /\ visit = NoVisit
    /\ caught = {}
    /\ push_tokens = NoTokens
    /\ sp = SpIdle
    /\ pcycle = [pc |-> "sleep", todo |-> {}, done |-> {}]

\* ---------------------------------------------------------------------------
\* The moon-phase table and the three walks over it (app.py 396-438, 891-1027).
\* MOON_RAW maps a date to its phase; the dates of the model lie in May and
\* June of one year, so the (year, month) key of the code is the month here.

Cardinal == {"New Moon", "First Quarter", "Full Moon", "Last Quarter"}

Curated == {"Strawberry Moon", "Supermoon", "Micromoon"}

month_names(month) ==
    CASE month = 1 -> "Wolf Moon"
      [] month = 2 -> "Snow Moon"
      [] month = 3 -> "Worm Moon"
      [] month = 4 -> "Pink Moon"
      [] month = 5 -> "Flower Moon"
      [] month = 6 -> "Strawberry Moon"
      [] month = 7 -> "Buck Moon"
      [] month = 8 -> "Sturgeon Moon"
      [] month = 9 -> "Harvest Moon"
      [] month = 10 -> "Hunter's Moon"
      [] month = 11 -> "Beaver Moon"
      [] OTHER -> "Cold Moon"

MoonDate(month, day) == [month |-> month, day |-> day]

\* The day of the year of a date, counted from the last day of April.
Ordinal(d) == IF d.month = 5 THEN d.day ELSE 31 + d.day

\* sorted(MOON_RAW.items()): the rows of the table by ascending date string.
RECURSIVE SortedFrom(_, _)
SortedFrom(raw, dates) ==
    IF dates = {} THEN <<>>
    ELSE LET d == CHOOSE d \in dates : \A e \in dates : Ordinal(d) <= Ordinal(e)
         IN  <<[date |-> d, phase |-> raw[d]]>> \o SortedFrom(raw, dates \ {d})

SortedItems(raw) == SortedFrom(raw, DOMAIN raw)

\* today <= d <= end, with end = today + timedelta(days=days).
InMoonWindow(row, today, days) ==
    today <= Ordinal(row.date) /\ Ordinal(row.date) <= today + days

\* The entry of one month in fulls_by_month and in by_month: the full moons of
\* that month that lie in the window, by date.
FullsOfMonth(raw, today, days, month) ==
    SelectSeq(SortedItems(raw),
              LAMBDA r : InMoonWindow(r, today, days) /\ r.phase = "Full Moon"
                         /\ r.date.month = month)

\* len(moons) > 1 and moons.index(date_str) == 1 (idx == 1 in the second walk).
IsSecond(moons, row) == Len(moons) > 1 /\ moons[2] = row

MoonTitle(raw, today, days, row) ==
    IF IsSecond(FullsOfMonth(raw, today, days, row.date.month), row)
    THEN "Blue Moon"
    ELSE month_names(row.date.month)

NoSpecial == "none"

get_moon_window(raw, today, days) ==
    LET inside == SelectSeq(SortedItems(raw), LAMBDA r : InMoonWindow(r, today, days))
    IN  [i \in 1..Len(inside) |->
            [date |-> inside[i].date, phase |-> inside[i].phase,
             special |-> IF inside[i].phase = "Full Moon"
                         THEN MoonTitle(raw, today, days, inside[i])
                         ELSE NoSpecial]]

get_special_moon_events(raw, today, days) ==
    LET full_moons == SelectSeq(SortedItems(raw),
                          LAMBDA r : InMoonWindow(r, today, days)
                                     /\ r.phase = "Full Moon")
        kept == SelectSeq(full_moons,
                          LAMBDA r : MoonTitle(raw, today, days, r) \in Curated)
    IN  [i \in 1..Len(kept) |->
            [type |-> "moon_special", date |-> kept[i].date,
             title |-> MoonTitle(raw, today, days, kept[i])]]

Emits_AnyDate(phase, last_phase) == phase \in Cardinal

\* phase != last_phase and phase in ("New Moon", "First Quarter", "Full Moon",
\* "Last Quarter").
Emits(phase, last_phase) == phase # last_phase /\ phase \in Cardinal

RECURSIVE BuildFrom(_, _, _)
BuildFrom(rows, i, last_phase) ==
    IF i > Len(rows) THEN <<>>
    ELSE (IF Emits(rows[i].phase, last_phase)
          THEN <<[type |-> "moon", date |-> rows[i].date, title |-> rows[i].phase]>>
          ELSE <<>>)
         \o BuildFrom(rows, i + 1, rows[i].phase)

build_moon_events(raw) == BuildFrom(SortedItems(raw), 1, "None")

MOON_WINDOW_DAYS == 30

SPECIAL_MOON_DAYS == 60

\* One start of the process (MOON_EVENTS is built at import) and one request
\* for the moon window and for the special moons on the day `today`.
MoonApply ==
    /\ moon.pc = "in"
    /\ moon' = [pc |-> "out", raw |-> moon.raw, today |-> moon.today,
                window |-> get_moon_window(moon.raw, moon.today, MOON_WINDOW_DAYS),
                special |-> get_special_moon_events(moon.raw, moon.today,
                                                    SPECIAL_MOON_DAYS),
                events |-> build_moon_events(moon.raw)]
    /\ UNCHANGED <<now, user_events, next_id, users, sched, aur, sent, history,
                   visit, caught, push_tokens, sp, pcycle, ord, kpfile, kpcall,
                   wxcache, wxcall, band, fc, vis, up, tz>>

\* ---------------------------------------------------------------------------
\* The timezone of the user in the body of the milestone loop (app.py 289-386).
\* The clock of this part starts at 2026-03-08T05:00Z; America/New_York goes
\* from UTC-5 to UTC-4 two hours later, at 07:00Z.

TimezoneValues == {"None", "", "Mars/Olympus", "UTC", "Asia/Tokyo", "America/New_York"}

\* timezone_str = user.get("timezone") or "UTC", then ZoneInfo(timezone_str),
\* with ZoneInfo("UTC") when the key is not a zone.
ZoneOf(timezone) ==
    IF timezone \in {"Asia/Tokyo", "America/New_York"} THEN timezone ELSE "UTC"

\* utcoffset of the zone at an instant.
UtcOffset(zone, t) ==
    CASE zone = "Asia/Tokyo" -> Hours(9)
      [] zone = "America/New_York" -> IF t < Hours(2) THEN 0 - Hours(5) ELSE 0 - Hours(4)
      [] OTHER -> 0

\* datetime.now(user_tz) and start_utc.astimezone(user_tz): the date and time
\* fields of the instant on the wall clock of the zone.
Wall(zone, t) == t + UtcOffset(zone, t)

\* event.get(marker) is None and now_local >= start_local - timedelta(...):
\* the subtraction moves the fields of start_local and keeps its tzinfo, and
\* two datetimes with the same tzinfo object are compared by their fields.
DueLocal(event, m, t, zone) ==
    /\ event[m] = NULL
    /\ Wall(zone, t) >= Wall(zone, event.start) - LeadTime(m)

\* The milestones one visit of the row dispatches when no call raises.
Dispatched(event, t, timezone) ==
    LET ms == MilestonesOf(event.type)
    IN  {ms[i] : i \in {j \in DOMAIN ms : DueLocal(event, ms[j], t, ZoneOf(timezone))}}

TzApply ==
    /\ tz.pc = "in"
    /\ tz' = [pc |-> "out", event |-> tz.event, t |-> tz.t,
              sends |-> [z \in TimezoneValues |-> Dispatched(tz.event, tz.t, z)]]
    /\ UNCHANGED <<now, user_events, next_id, users, sched, aur, sent, history,
                   visit, caught, push_tokens, sp, pcycle, ord, kpfile, kpcall,
                   wxcache, wxcall, band, fc, vis, up, moon>>

InitExtras ==
    /\ InitPush
    /\ ord = NoOrder
    /\ kpfile = Absent
    /\ kpcall = [c \in Callers |-> NoCall]
    /\ wxcache = [c \in Cells |-> WxAbsent]
    /\ wxcall = NoWxCall
    /\ band = NoBand
    /\ fc = NoForecast
    /\ vis = NoVis
    /\ up = NoUpcoming
    /\ moon = NoMoon
    /\ tz = NoTz

InitEngine ==
    /\ now = 0
    /\ user_events = EmptySnapshot
    /\ next_id = 1
    /\ sched = Idle
    /\ aur = AurIdle
    /\ sent = {}
    /\ pushes = {}
    /\ repushes = {}
    /\ reminded = {}
    /\ reminded_again = {}
    /\ last_alert = [u \in UserIds |-> NULL]
    /\ too_soon = {}

InitStore == InitEngine /\ InitExtras

\* The milestone loop with the save and delete handlers, one user.
Init ==
    /\ InitStore
    /\ users = [u \in UserIds |-> [lat |-> NoLat, last_aurora_push_at |-> NULL]]

Quiet(A) == A /\ UNCHANGED history /\ UNCHANGED extras

SaveStep == \E e \in Catalog :
                next_id <= MaxSaves /\ Quiet(add_user_event("u1", e))
DeleteStep == \E e \in Catalog : Quiet(delete_user_event("u1", e.id))
QueryStep == Quiet(SchedQuery)
EventStep(r, fail) == Quiet(ProcessEvent(r, fail))
SleepStep == Quiet(SchedSleep)

Next ==
    \/ SaveStep
    \/ DeleteStep
    \/ Quiet(Tick)
    \/ QueryStep
    \/ \E r \in RowIds, fail \in FailPoints : EventStep(r, fail)
    \/ SleepStep

Spec == Init /\ [][Next]_vars

\* The loop keeps running cycles, and a call that raised in one cycle does not
\* raise in every cycle.  Time and the handlers are under no obligation.
Fairness ==
    /\ WF_vars(QueryStep)
    /\ WF_vars(SleepStep)
    /\ \A r \in RowIds : SF_vars(EventStep(r, NoFail))

\* The events followed under fairness: one of each number of milestones, and one
\* whose second threshold lies beyond the horizon of the clock.
LiveEvents == {e \in Catalog : e.id \in {"meteor-a", "moon-a", "eclipse-b"}}

LiveNext ==
    \/ \E e \in LiveEvents :
          next_id <= MaxSaves /\ Quiet(add_user_event("u1", e))
    \/ \E e \in LiveEvents : Quiet(delete_user_event("u1", e.id))
    \/ Quiet(Tick)
    \/ QueryStep
    \/ \E r \in RowIds, fail \in FailPoints : EventStep(r, fail)
    \/ SleepStep

LiveSpec == Init /\ [][LiveNext]_vars /\ Fairness

\* The milestone loop over saved events it has no branch for: a special moon, a
\* type outside the catalog, a meteor shower whose start is not a date, and a
\* moon phase for contrast.
InertEvents ==
    { [id |-> "moon-sp-a", type |-> "moon_special", start |-> 3],
      [id |-> "launch-a",  type |-> "launch",       start |-> 3],
      [id |-> "meteor-x",  type |-> "meteor",       start |-> BadStart],
      [id |-> "moon-a",    type |-> "moon",         start |-> 3] }

InertNext ==
    \/ \E e \in InertEvents :
          next_id <= MaxSaves /\ Quiet(add_user_event("u1", e))
    \/ \E e \in InertEvents : Quiet(delete_user_event("u1", e.id))
    \/ Quiet(Tick)
    \/ QueryStep
    \/ \E r \in RowIds, fail \in FailPoints : EventStep(r, fail)
    \/ SleepStep

InertSpec == Init /\ [][InertNext]_vars

\* The milestone loop with the history of its pushes, over repeated saves of two
\* events.  `fails` are the calls that may raise; with `unique`, the store refuses a
\* second row of the same user and event (a unique key on user_events), so that
\* what is found does not rest on the store accepting duplicates.
HistoryEvents == {e \in Catalog : e.id \in {"comet-a", "moon-a"}}

TrackPushes ==
    LET keys == {<<sched.events[k[1]].user_id, sched.events[k[1]].event_id, k[2]>> :
                    k \in sent'}
    IN  /\ pushes' = pushes \cup sent'
        /\ repushes' = repushes \cup (pushes \cap sent')
        /\ reminded' = reminded \cup keys
        /\ reminded_again' = reminded_again \cup (reminded \cap keys)
        /\ UNCHANGED <<last_alert, too_soon>>
        /\ UNCHANGED extras

HistoryNext(fails, unique) ==
    \/ \E e \in HistoryEvents :
            /\ next_id <= MaxRows
            /\ unique => \A r \in DOMAIN user_events :
                            ~(/\ user_events[r].user_id = "u1"
                              /\ user_events[r].event_id = e.id)
            /\ Quiet(add_user_event("u1", e))
    \/ \E e \in HistoryEvents : Quiet(delete_user_event("u1", e.id))
    \/ Quiet(Tick)
    \/ Quiet(SchedQuery)
    \/ \E r \in RowIds, fail \in fails : ProcessEvent(r, fail) /\ TrackPushes
    \/ Quiet(SchedSleep)

HistorySpec == Init /\ [][HistoryNext(FailPoints, FALSE)]_vars

ResaveSpec == Init /\ [][HistoryNext({NoFail}, TRUE)]_vars

\* The aurora loop, two users, with the save and delete handlers.
AuroraEvents == {e \in Catalog : e.id \in {"aurora-a", "moon-a"}}

AuroraInit ==
    /\ InitStore
    /\ users \in [UserIds -> [lat : Lats, last_aurora_push_at : {NULL}]]
    /\ users["u1"].lat # NoLat

\* The users that the send_push calls of this step of the aurora loop are for.
Alerted == {aur.rows[k[1]].id : k \in sent'}

\* The history of aurora pushes: the start of the cycle that pushes a user is
\* compared with the start of the cycle that pushed that user before.
TrackAlerts ==
    /\ last_alert' = [u \in UserIds |->
                        IF u \in Alerted THEN aur.now_iso ELSE last_alert[u]]
    /\ too_soon' = too_soon \cup
                     {u \in Alerted : /\ last_alert[u] # NULL
                                    /\ u \notin {aur.rows[r].id : r \in aur.pushed}
                                    /\ aur.now_iso - last_alert[u] < Hours(12)}
    /\ UNCHANGED <<pushes, repushes, reminded, reminded_again>>
    /\ UNCHANGED extras

AuroraNextWith(Track) ==
    \/ \E u \in UserIds, e \in AuroraEvents :
            next_id <= MaxRows /\ Quiet(add_user_event(u, e))
    \/ \E u \in UserIds, e \in AuroraEvents : Quiet(delete_user_event(u, e.id))
    \/ Quiet(AuroraTick)
    \/ Quiet(AuroraQuery)
    \/ \E r \in RowIds, max_kp \in KpInputs, fail \in AuroraFails :
            AuroraRow(r, max_kp, fail) /\ Track
    \/ Quiet(AuroraSleep)

AuroraSpec == AuroraInit /\ [][AuroraNextWith(UNCHANGED <<history, extras>>)]_vars

AuroraHistorySpec == AuroraInit /\ [][AuroraNextWith(TrackAlerts)]_vars

\* The aurora loop with each pass of its body on record: the row it took and
\* the max_kp its forecast found.
Unvisited(A) ==
    /\ A
    /\ visit' = NoVisit
    /\ UNCHANGED <<history, caught, push_tokens, sp, pcycle, ord, kpfile, kpcall,
                   wxcache, wxcall, band, fc, vis, up, moon, tz>>

AuroraVisitNext ==
    \/ \E u \in UserIds, e \in AuroraEvents :
            next_id <= MaxRows /\ Unvisited(add_user_event(u, e))
    \/ \E u \in UserIds, e \in AuroraEvents : Unvisited(delete_user_event(u, e.id))
    \/ Unvisited(AuroraTick)
    \/ Unvisited(AuroraQuery)
    \/ \E r \in RowIds, max_kp \in KpInputs, fail \in AuroraFails :
            /\ AuroraRow(r, max_kp, fail)
            /\ visit' = [r |-> r, kp |-> max_kp]
            /\ UNCHANGED <<history, caught, push_tokens, sp, pcycle, ord, kpfile, kpcall,
                   wxcache, wxcall, band, fc, vis, up, moon, tz>>
    \/ Unvisited(AuroraSleep)

AuroraVisitSpec == AuroraInit /\ [][AuroraVisitNext]_vars

\* Both loops of start_background_jobs on one store, one user with a known
\* latitude saving and deleting, over a stretch of time shorter than a tick;
\* `caught` keeps which except clauses have run.
LoopsInit ==
    /\ InitStore
    /\ users = [u \in UserIds |->
                  [lat |-> IF u = "u1" THEN 65 ELSE NoLat,
                   last_aurora_push_at |-> NULL]]

LoopEventStep(r, fail) ==
    /\ ProcessEvent(r, fail)
    /\ caught' = IF fail = NoFail THEN caught ELSE caught \cup {"milestone"}
    /\ UNCHANGED <<history, visit, push_tokens, sp, pcycle, ord, kpfile, kpcall,
                   wxcache, wxcall, band, fc, vis, up, moon, tz>>

LoopAuroraStep(r, fail) ==
    /\ \E max_kp \in KpInputs : AuroraRow(r, max_kp, fail)
    /\ caught' = IF fail = "none" THEN caught ELSE caught \cup {"aurora"}
    /\ UNCHANGED <<history, visit, push_tokens, sp, pcycle, ord, kpfile, kpcall,
                   wxcache, wxcall, band, fc, vis, up, moon, tz>>

\* An aurora event is a row of both loops.
LoopsEvents == {e \in Catalog : e.id = "aurora-a"}

\* The steps of each thread.
MilestoneThread ==
    \/ QueryStep
    \/ \E r \in RowIds, fail \in FailPoints : LoopEventStep(r, fail)
    \/ SleepStep

AuroraThread ==
    \/ Quiet(AuroraQuery)
    \/ \E r \in RowIds, fail \in AuroraFails : LoopAuroraStep(r, fail)
    \/ Quiet(AuroraSleep)

LoopsNext ==
    \/ \E e \in LoopsEvents :
            next_id <= MaxSaves /\ Quiet(add_user_event("u1", e))
    \/ \E e \in LoopsEvents : Quiet(delete_user_event("u1", e.id))
    \/ MilestoneThread
    \/ AuroraThread

\* Each thread keeps being scheduled: its calls return or raise, and time.sleep
\* returns.  Nothing is asked of the calls: they may raise in every cycle.
LoopsFairness ==
    /\ WF_vars(MilestoneThread)
    /\ WF_vars(AuroraThread)

LoopsSpec == LoopsInit /\ [][LoopsNext]_vars /\ LoopsFairness

\* send_push and its caller, with users registering tokens.
PushNext ==
    \/ \E u \in UserIds, t \in Tokens : push_subscribe(u, t)
    \/ PushCycleStart
    \/ \E u \in UserIds, get_ok \in BOOLEAN : PushCall(u, get_ok)
    \/ \E t \in Tokens, outcome \in SendOutcomes, del_ok \in BOOLEAN :
          PushSend(t, outcome, del_ok)
    \/ PushReturn
    \/ PushCycleEnd

PushSpec == Init /\ [][PushNext]_vars

\* The other variables at rest, for the specifications of one function.
AtRest ==
    /\ InitEngine
    /\ InitPush
    /\ users = [u \in UserIds |-> [lat |-> NoLat, last_aurora_push_at |-> NULL]]
    /\ ord = NoOrder
    /\ kpfile = Absent
    /\ kpcall = [c \in Callers |-> NoCall]
    /\ wxcache = [c \in Cells |-> WxAbsent]
    /\ wxcall = NoWxCall

\* Row times around the window of the two call times: before the call, at the
\* call or just after it, at now + 24h or just past it, past it.
KpTimes == {0, 2, Hours(24) + 2, Hours(24) + 3}

KpValues == {300, 400, 900}

ForecastTimes == {1, 2}

ForecastLats == {65, 0 - 40}

\* Well-formed rows, and rows with an unparsable time_tag, an unparsable kp,
\* one field, five fields.
KpRows ==
    {KpRow(4, t, kp) : t \in KpTimes, kp \in KpValues}
        \cup {KpRow(4, NULL, 900), KpRow(4, 2, NULL), KpRow(1, NULL, NULL),
              KpRow(5, 2, 900)}

RECURSIVE SeqsUpTo(_, _)
SeqsUpTo(S, n) ==
    IF n = 0 THEN {<<>>}
    ELSE LET shorter == SeqsUpTo(S, n - 1)
         IN  shorter \cup {Append(q, x) : q \in shorter, x \in S}

KpTablesOfRows == {<<Header>> \o rows : rows \in SeqsUpTo(KpRows, MaxKpRows)}

ForecastInit ==
    /\ AtRest
    /\ band = NoBand
    /\ vis = NoVis
    /\ up = NoUpcoming
    /\ moon = NoMoon
    /\ tz = NoTz
    /\ fc \in [pc : {"in"}, kp_rows : KpTablesOfRows, t : ForecastTimes,
                lat : ForecastLats]

ForecastSpec == ForecastInit /\ [][ForecastApply]_vars

\* The table of two samples, at 2030-01-01 00:00:00 (time 0) with kp 3.0 and
\* three hours later with kp 6.0.
ExampleTable == <<Header, KpRow(4, 0, 300), KpRow(4, Hours(3), 600)>>

\* get_aurora_forecast on that table at time 0, for any latitude.
ExampleInit ==
    /\ AtRest
    /\ band = NoBand
    /\ vis = NoVis
    /\ up = NoUpcoming
    /\ moon = NoMoon
    /\ tz = NoTz
    /\ fc \in [pc : {"in"}, kp_rows : {ExampleTable}, t : {0}, lat : -MaxLat..MaxLat]

ExampleSpec == ExampleInit /\ [][ForecastApply]_vars

\* The event scored: a window of one hour starting at time 1.
VisEvents == {[type |-> type, start |-> 1, end |-> 1 + Hours(1)] : type \in VisTypes}

Hour(is_night, time, cloud, precip) ==
    [is_night |-> is_night, time |-> time, cloud |-> cloud, precip |-> precip]

\* Night hours at the two ends of [start, end + 1 day] with clouds and
\* precipitation whose means fall in every band and on every band edge; a day
\* hour in the window and night hours just outside it.
VisHours ==
    {Hour(TRUE, time, cloud, precip) :
        time \in {1, 1 + Hours(1) + Hours(24)}, cloud \in {10, 30, 70, 80},
        precip \in {0, 40, 50}}
        \cup {Hour(FALSE, 1, 80, 50), Hour(TRUE, 0, 80, 50),
              Hour(TRUE, 2 + Hours(1) + Hours(24), 80, 50)}

VisInit ==
    /\ AtRest
    /\ band = NoBand
    /\ fc = NoForecast
    /\ up = NoUpcoming
    /\ moon = NoMoon
    /\ tz = NoTz
    /\ vis \in [pc : {"in"}, event : VisEvents, hours : SeqsUpTo(VisHours, MaxHours)]

VisSpec == VisInit /\ [][VisApply]_vars

\* The request arrives at time 0.  Windows of the raw events: ended 25 hours
\* ago, ended 23 hours ago, going on, starting now, starting 28 days from now,
\* half an hour later than that, 29 days from now.
Windows ==
    {<<0 - Hours(25) - Hours(24), 0 - Hours(25)>>,
     <<0 - Hours(23) - Hours(24), 0 - Hours(23)>>,
     <<0 - Hours(1), Hours(23)>>,
     <<0, Hours(24) - M30>>,
     <<Days(28), Days(29) - M30>>,
     <<Days(28) + M30, Days(29)>>,
     <<Days(29), Days(30) - M30>>}

RawEvents ==
    {[type |-> type, start |-> w[1], end |-> w[2]] :
        type \in {"eclipse", "comet"}, w \in Windows}
        \cup {[type |-> "moon_special", start |-> w[1], end |-> w[2]] :
                 w \in {<<0 - Hours(1), Hours(23)>>, <<0, Hours(24) - M30>>}}

\* The weather of the request: one clear night hour at time 0.
RequestHours == <<Hour(TRUE, 0, 10, 0)>>

\* The aurora forecasts of the request: of the two-sample table at latitude
\* 65 (likely, peak three hours from now) and at latitude 40 (not likely).
RequestForecasts == {get_aurora_forecast(ExampleTable, 0, lat) : lat \in {65, 40}}

\* No coordinates: get_aurora_forecast is not called.
NoForecastMade == get_aurora_forecast(<<Header>>, 0, 0)

UpcomingInit ==
    /\ AtRest
    /\ band = NoBand
    /\ fc = NoForecast
    /\ vis = NoVis
    /\ moon = NoMoon
    /\ tz = NoTz
    /\ up \in [pc : {"in"}, sources : SeqsUpTo(RawEvents, MaxSources), t : {0},
                before : {FALSE}, has_weather : {TRUE}, hours : {RequestHours},
                forecast : RequestForecasts]
               \cup [pc : {"in"}, sources : SeqsUpTo(RawEvents, MaxSources), t : {0},
                      before : {FALSE}, has_weather : {FALSE}, hours : {<<>>},
                      forecast : {NoForecastMade}]

UpcomingSpec == UpcomingInit /\ [][UpcomingApply]_vars

\* The tables of a run of requests: a comet going on, an eclipse that starts
\* now, a comet 29 days ahead, a special moon of today.
HeldEvents ==
    {[type |-> "comet", start |-> 0 - Hours(1), end |-> Hours(23)],
     [type |-> "eclipse", start |-> 0, end |-> Hours(24) - M30],
     [type |-> "comet", start |-> Days(29), end |-> Days(30) - M30],
     [type |-> "moon_special", start |-> 0, end |-> Hours(24) - M30]}

CatalogInit ==
    /\ AtRest
    /\ band = NoBand
    /\ fc = NoForecast
    /\ vis = NoVis
    /\ moon = NoMoon
    /\ tz = NoTz
    /\ up \in [pc : {"in"}, sources : SeqsUpTo(HeldEvents, MaxSources), t : {0},
                before : {FALSE}, has_weather : {TRUE}, hours : {RequestHours},
                forecast : RequestForecasts]
               \cup [pc : {"in"}, sources : SeqsUpTo(HeldEvents, MaxSources), t : {0},
                      before : {FALSE}, has_weather : {FALSE}, hours : {<<>>},
                      forecast : {NoForecastMade}]

\* Requests to /api/upcoming one after the other on the same tables.
CatalogNext == UpcomingApply \/ UpcomingRequest

CatalogSpec == CatalogInit /\ [][CatalogNext]_vars

\* The dates of the table: two neighbouring days at the start of May, the last
\* day of May, and three days of June.
MoonDates ==
    {MoonDate(5, 1), MoonDate(5, 2), MoonDate(5, 31),
     MoonDate(6, 1), MoonDate(6, 29), MoonDate(6, 30)}

MoonPhases == {"New Moon", "First Quarter", "Full Moon", "Last Quarter",
               "Waxing Gibbous"}

\* The days of the request: May 1, May 2 and June 2.
MoonTodays == {1, 2, 33}

MoonInit ==
    /\ AtRest
    /\ band = NoBand
    /\ fc = NoForecast
    /\ vis = NoVis
    /\ up = NoUpcoming
    /\ tz = NoTz
    /\ moon \in [pc : {"in"}, raw : [MoonDates -> MoonPhases], today : MoonTodays]

MoonSpec == MoonInit /\ [][MoonApply]_vars

\* Saved events that start 3, 5 and 26 hours after the start of the clock, with
\* every marker unset or the 1-hour marker set.
TzEvents ==
    {[NewRow("u1", [id |-> "e", type |-> type, start |-> start])
         EXCEPT !.notified_1h_at = mark] :
        type \in EventTypes, start \in {Hours(3), Hours(5), Hours(26)},
        mark \in {NULL, 0}}

TzInstants == {M30 * k : k \in 0..10}

TzInit ==
    /\ AtRest
    /\ band = NoBand
    /\ fc = NoForecast
    /\ vis = NoVis
    /\ up = NoUpcoming
    /\ moon = NoMoon
    /\ tz \in [pc : {"in"}, event : TzEvents, t : TzInstants]

TzSpec == TzInit /\ [][TzApply]_vars

\* Calls of get_weather_forecast as time passes.
WeatherNext == WeatherCall \/ Quiet(Tick)

WeatherSpec == Init /\ [][WeatherNext]_vars

\* required_kp_for_lat applied to any two latitudes.
BandInit ==
    /\ InitEngine
    /\ InitPush
    /\ users = [u \in UserIds |-> [lat |-> NoLat, last_aurora_push_at |-> NULL]]
    /\ ord = NoOrder
    /\ kpfile = Absent
    /\ kpcall = [c \in Callers |-> NoCall]
    /\ wxcache = [c \in Cells |-> WxAbsent]
    /\ wxcall = NoWxCall
    /\ band \in [pc : {"in"}, a : -MaxLat..MaxLat, b : -MaxLat..MaxLat,
                  ra : {NULL}, rb : {NULL}]
    /\ fc = NoForecast
    /\ vis = NoVis
    /\ up = NoUpcoming
    /\ moon = NoMoon
    /\ tz = NoTz

BandSpec == BandInit /\ [][BandApply]_vars

\* One thread calling fetch_noaa_kp_forecast_cached as time passes.
CacheNext == CacheStep("job") \/ Quiet(Tick)

CacheSpec == Init /\ [][CacheNext]_vars

\* The aurora loop and a request handler calling it at once.
SharedCacheNext == (\E c \in Callers : CacheStep(c)) \/ Quiet(Tick)

SharedCacheSpec == Init /\ [][SharedCacheNext]_vars

\* Rows of user_events as a cycle of the milestone loop may read them: saved
\* events not yet begun, fresh or with their first marker set.
SnapshotEvents(t) ==
    UNION {{NewRow("u1", e),
            [NewRow("u1", e) EXCEPT ![MilestonesOf(e.type)[1]] = 0]} :
           e \in {c \in HistoryEvents : c.start >= t}}

MilestoneInputs ==
    [loop : {"milestone"}, pc : {1},
     t : 0..MaxTime,
     rows : [1..OrderRows -> SnapshotEvents(0)],
     order : Orders,
     fails : [1..OrderRows -> FailPoints],
     max_kp : {NULL},
     run : [1..2 -> {NoRun}]]

\* Rows of the aurora query: the user of each row, joined with users.
AuroraInputs ==
    UNION {[loop : {"aurora"}, pc : {1},
            t : {Hours(12)},
            rows : {[r \in 1..OrderRows |->
                       [id |-> owner[r], lat |-> us[owner[r]].lat,
                        last_aurora_push_at |-> us[owner[r]].last_aurora_push_at]]},
            order : Orders,
            fails : [1..OrderRows -> AuroraFails],
            max_kp : KpInputs,
            run : [1..2 -> {NoRun}]] :
           owner \in [1..OrderRows -> UserIds],
           us \in [UserIds -> [lat : Lats, last_aurora_push_at : {NULL, M30}]]}

\* A snapshot, the calls that raise and an order are drawn; the cycle is run in
\* the two orders.
OrderInit ==
    /\ InitEngine
    /\ InitPush
    /\ users = [u \in UserIds |-> [lat |-> NoLat, last_aurora_push_at |-> NULL]]
    /\ ord \in MilestoneInputs \cup AuroraInputs
    /\ kpfile = Absent
    /\ kpcall = [c \in Callers |-> NoCall]
    /\ wxcache = [c \in Cells |-> WxAbsent]
    /\ wxcall = NoWxCall
    /\ band = NoBand
    /\ fc = NoForecast
    /\ vis = NoVis
    /\ up = NoUpcoming
    /\ moon = NoMoon
    /\ tz = NoTz
    /\ ord.loop = "milestone" => \A r \in 1..OrderRows : ord.rows[r].start >= ord.t

OrderNext == \E k \in 1..2 : OrderRun(k)

OrderSpec == OrderInit /\ [][OrderNext]_vars

------------------------------------------------------------------------------
(* The claims *)

\* The lead times the specification lists per type (section 4.4), in ticks.
ListedLeads(type) ==
    CASE type = "meteor" -> {<<"notified_12h_at", Hours(12)>>, <<"notified_1h_at", Hours(1)>>}
      [] type \in {"eclipse", "comet", "alignment"} ->
            {<<"notified_24h_at", Hours(24)>>, <<"notified_1h_at", Hours(1)>>}
      [] type = "moon" -> {<<"notified_1h_at", Hours(1)>>}
      [] OTHER -> {}

ListedTypes == {"meteor", "eclipse", "comet", "alignment", "moon"}

\* The rows the milestone loop has visited in the cycle under way.
Visited == DOMAIN sched.events \ sched.todo

\* The cycle under way has run through its snapshot without an exception.
CycleComplete == sched.pc = "run" /\ sched.todo = {}

\* Row r leaves the to-do set in this step and the cycle goes on: its pass through
\* the loop body raised nothing.
Passed(r) ==
    /\ sched.pc = "run" /\ r \in sched.todo
    /\ sched'.pc = "run" /\ r \notin sched'.todo

\* C1: once a marker of a saved event is set in the record store, no later step of
\* the milestone loop calls send_push for that milestone of that row.
C1_Idempotent ==
    [][\A r \in DOMAIN user_events, m \in Markers :
          user_events[r][m] # NULL => <<r, m>> \notin sent']_vars

\* A cycle has visited a row whose marker was already set in its snapshot, and the
\* marker is as it was.
C1_Witness ==
    \E r \in Visited \cap DOMAIN user_events, m \in Markers :
        /\ sched.events[r][m] # NULL
        /\ user_events[r][m] = sched.events[r][m]
        /\ <<r, m>> \notin sched.pushed

\* C2: a marker that is set keeps its timestamp for as long as its row exists, and
\* no step of the milestone loop removes a row; the only change of a marker is
\* from empty to a timestamp.  (The aurora loop writes to the users table alone:
\* AuroraRow leaves user_events as it is.)
C2_Monotonic ==
    [][/\ \A r \in DOMAIN user_events \cap DOMAIN user_events', m \in Markers :
            user_events[r][m] # NULL => user_events'[r][m] = user_events[r][m]
       /\ sched' # sched => DOMAIN user_events' = DOMAIN user_events]_vars

\* A marker written at an earlier instant has come through the visit of a cycle
\* whose query ran after the write, with the second marker of the row written.
C2_Witness ==
    \E r \in Visited \cap DOMAIN user_events, m, m2 \in Markers :
        /\ user_events[r][m] # NULL
        /\ user_events[r][m] < sched.at
        /\ user_events[r][m2] >= sched.at
        /\ <<r, m2>> \in sched.pushed

\* C3: no (saved-event row, milestone) pair has send_push complete for it more
\* than once, whatever calls raise.
C3_Original == repushes = {}

\* C4: each reminder (user, event id, milestone) is dispatched at most once, over
\* any sequence of saves, deletes and cycles.
C4_Original == reminded_again = {}

CaughtUp(r) ==
    LET ms == IF user_events[r].type = "aurora"
              THEN {<<"notified_4h_at", Hours(4)>>, <<"notified_30m_at", M30>>}
              ELSE ListedLeads(user_events[r].type)
    IN  /\ Cardinality(ms) = 2
        /\ \A lead \in ms :
              /\ sched.at >= user_events[r].start - lead[2]
              /\ user_events[r][lead[1]] = NULL \/ <<r, lead[1]>> \in sched.pushed

Pending(r, lead) ==
    /\ user_events[r][lead[1]] = NULL
    /\ now >= user_events[r].start - lead[2]

\* C7 as stated: under the fairness of the loop no listed milestone of a row of
\* the table stays pending for ever once its threshold is reached.  (Row ids are
\* not reused and the clock does not go back, so a milestone that is pending with
\* its threshold reached stays so until it is fired or its row is deleted: "it is
\* eventually fired or deleted" is "it is not pending again and again".)
C7_Original ==
    []<>(\A r \in DOMAIN user_events :
            \A lead \in ListedLeads(user_events[r].type) : ~Pending(r, lead))

\* C7 as amended: the same for the milestones of the rows whose event has not
\* begun; a milestone still pending when the start of its event has passed is
\* not promised anything.
C7_Liveness ==
    []<>(\A r \in DOMAIN user_events :
            \A lead \in ListedLeads(user_events[r].type) :
                Pending(r, lead) => user_events[r].start < now)

\* A milestone whose threshold was reached before the cycle began has been fired
\* by the cycle, at the very instant the event starts.
C7_Witness ==
    \E r \in Visited \cap DOMAIN user_events :
        \E lead \in ListedLeads(user_events[r].type) :
            /\ user_events[r][lead[1]] = user_events[r].start
            /\ sched.at = user_events[r].start
            /\ sched.events[r][lead[1]] = NULL

C9_Original == too_soon = {}

\* C10: within one cycle of the aurora loop no user is evaluated (forecast
\* computed) for more than one row, and no user is pushed for more than one row.
C10_Dedup ==
    \A r1, r2 \in aur.evaluated \cup aur.pushed :
        aur.rows[r1].id = aur.rows[r2].id => r1 = r2

\* A cycle has been through two aurora rows of one user and pushed for one.
C10_Witness ==
    \E r1, r2 \in DOMAIN aur.rows \ aur.todo :
        /\ r1 # r2
        /\ aur.rows[r1].id = aur.rows[r2].id
        /\ r1 \in aur.pushed

\* The pass of the aurora loop body that this step makes, if it makes one.
Visiting == visit' # NoVisit

\* The conditions of section 4.4 for the user of the row the pass takes: first
\* row of the user in the cycle, latitude known, last push (as read by the
\* cycle's query) 12 hours old or older, forecast likely for the latitude.
Eligible(user, kp) ==
    /\ user.id \notin aur.processed
    /\ user.lat # NoLat
    /\ user.last_aurora_push_at = NULL \/ now - user.last_aurora_push_at >= Hours(12)
    /\ kp # NULL
    /\ kp >= 100 * required_kp_for_lat(user.lat)

C12_LoopsGoOn ==
    /\ []<>(sched.pc = "sleep")
    /\ []<>(sched.pc = "run")
    /\ []<>(aur.pc = "sleep")
    /\ []<>(aur.pc = "run")

\* Each loop is in a cycle again after its except clause has caught an
\* exception, with a row of its snapshot still to take.
C12_Witness ==
    /\ caught = {"milestone", "aurora"}
    /\ sched.pc = "run" /\ sched.todo # {}
    /\ aur.pc = "run" /\ aur.todo # {}

\* send_push has finished a call in which a send failed.
SendFailed == sp.pc = "idle" /\ sp.failed # {}

\* Every token fetched was tried, send_push returned, and the cycle of the
\* caller was not ended: it is running, or has been through all its users.
Isolated ==
    /\ sp.attempted = sp.tokens
    /\ sp.result = "returned"
    /\ pcycle.pc = "run" \/ pcycle.todo = {}

BothRun == ord.pc = 3

SameOutcome ==
    /\ ord.run[1].sent = ord.run[2].sent
    /\ ord.run[1].written = ord.run[2].written

CallBegins == kpcall["job"].pc \in {"idle", "done"} /\ kpcall'["job"] # kpcall["job"]

\* C15: a call made while the file holds a table stored less than an hour ago
\* returns that table and makes no network call; a call made at any other time
\* attempts a fetch, and a fetch that succeeds ends with the new table in the
\* file, stamped with the time of the write, and returned.
C15_CacheHit ==
    [][/\ CallBegins =>
            IF kpfile.state = "entry" /\ now - kpfile.cached_at < Hours(1)
            THEN /\ kpcall'["job"].pc = "done"
                 /\ kpcall'["job"].ret = kpfile.kp_forecast
                 /\ ~kpcall'["job"].net
                 /\ kpfile' = kpfile
            ELSE kpcall'["job"].pc = "fetch"
       /\ (kpcall["job"].pc = "fetch" /\ kpcall'["job"].pc # "fetch") =>
            /\ kpcall'["job"].net
            /\ kpcall'["job"].outcome = "ok" => kpcall'["job"].pc = "save"
       /\ (kpcall'["job"].pc = "done" /\ kpcall'["job"].outcome = "ok") =>
            /\ kpfile'.state = "entry"
            /\ kpfile'.kp_forecast = kpcall'["job"].table
            /\ kpfile'.cached_at = kpcall'["job"].stamp
            /\ kpcall'["job"].ret = kpcall'["job"].table]_vars

\* A call has returned, with no network call, the table that an earlier call
\* stored half an hour before; the table differs from the first one stored.
C15_Witness ==
    /\ kpcall["job"].pc = "done"
    /\ ~kpcall["job"].net
    /\ kpfile.state = "entry"
    /\ kpcall["job"].ret = kpfile.kp_forecast
    /\ now - kpfile.cached_at = M30
    /\ kpfile.cached_at >= Hours(1)

\* C16: a call whose fetch failed, for whatever reason, with a table in the
\* cache returns that table; it raises only if there is no cached table; and the
\* file is as it was before the call.
C16_Original ==
    \A c \in {"job"} :
        (kpcall[c].pc = "done" /\ kpcall[c].net /\ kpcall[c].outcome # "ok") =>
            /\ kpfile = (IF kpcall[c].cached.state = "entry"
                         THEN kpcall[c].cached ELSE kpfile)
            /\ IF kpcall[c].cached.state = "entry"
               THEN kpcall[c].ret = kpcall[c].cached.kp_forecast
               ELSE kpcall[c].ret = "raise"

\* C17: no call ever reads the cache file empty, cut short or garbled: what a
\* call reads is the whole previous entry or the whole new one (or no file,
\* before the first write), and a call that read an entry has it as its cache.
C17_Original ==
    \A c \in Callers :
        /\ kpcall[c].text # "torn"
        /\ kpcall[c].text = "entry" <=> kpcall[c].cached.state = "entry"

\* C18: a call of get_weather_forecast whose provider call failed returns the
\* document stored for the cell if there is one, expired or not, and raises only
\* if no document is stored for the cell.
C18_Original ==
    (wxcall.net /\ wxcall.outcome # "ok") =>
        IF wxcache[wxcall.cell].state = "entry"
        THEN wxcall.ret = wxcache[wxcall.cell].doc
        ELSE wxcall.ret = "raise"

\* |lat|
Magnitude(lat) == IF lat < 0 THEN 0 - lat ELSE lat

\* C19: required_kp_for_lat returns 3 for |lat| >= 67, 4 for 63 <= |lat| < 67,
\* 5 for 60 <= |lat| < 63, 6 for 57 <= |lat| < 60, 7 for 54 <= |lat| < 57,
\* 8 for 50 <= |lat| < 54 and 9 for |lat| < 50.
C19_Bands ==
    band.pc = "out" =>
        LET m == Magnitude(band.a)
            r == band.ra
        IN  /\ m >= 67 => r = 3
            /\ (63 <= m /\ m < 67) => r = 4
            /\ (60 <= m /\ m < 63) => r = 5
            /\ (57 <= m /\ m < 60) => r = 6
            /\ (54 <= m /\ m < 57) => r = 7
            /\ (50 <= m /\ m < 54) => r = 8
            /\ m < 50 => r = 9

\* The function has been applied to a southern latitude on a band's lower edge.
C19_Witness == band.pc = "out" /\ band.a = 0 - 63 /\ band.ra = 4

\* C20: required_kp_for_lat(lat) = required_kp_for_lat(-lat), and for latitudes
\* with |a| <= |b|, required_kp_for_lat(a) >= required_kp_for_lat(b).
C20_SymmetricMonotone ==
    band.pc = "out" =>
        /\ band.b = 0 - band.a => band.ra = band.rb
        /\ Magnitude(band.a) <= Magnitude(band.b) => band.ra >= band.rb

\* The function has been applied to a northern latitude and to a southern one
\* of greater magnitude, in different bands.
C20_Witness ==
    /\ band.pc = "out"
    /\ band.a = 50 /\ band.b = 0 - 67
    /\ band.ra = 8 /\ band.rb = 3

\* The row has four fields, a time_tag and a kp that parse.
WellFormed(row) == row.shape = 4 /\ row.t_str # NULL /\ row.kp_str # NULL

\* The positions, after the header, of the rows of the table in [t, t + 24h].
InWindow(kp_rows, t) ==
    {i \in 2..Len(kp_rows) : t <= kp_rows[i].t_str /\ kp_rows[i].t_str <= t + Hours(24)}

AllWellFormed(kp_rows) == \A i \in 2..Len(kp_rows) : WellFormed(kp_rows[i])

\* C21: for a table of well-formed rows, max_kp is the greatest kp of the rows
\* after the header with now <= t <= now + 24h and the peak is the first row in
\* document order with that kp; both are null when no row is in the window.
C21_Summary ==
    (fc.pc = "out" /\ AllWellFormed(fc.kp_rows)) =>
        LET W == InWindow(fc.kp_rows, fc.t)
        IN  /\ ~fc.summary.raised
            /\ W = {} => fc.summary.max_kp = NULL /\ fc.summary.max_entry = NULL
            /\ W # {} =>
                 LET best == CHOOSE i \in W :
                                 /\ \A j \in W : fc.kp_rows[j].kp_str <= fc.kp_rows[i].kp_str
                                 /\ \A j \in W : j < i =>
                                        fc.kp_rows[j].kp_str < fc.kp_rows[i].kp_str
                 IN  /\ fc.summary.max_kp = fc.kp_rows[best].kp_str
                     /\ fc.summary.max_entry.kp = fc.kp_rows[best].kp_str
                     /\ fc.summary.max_entry.time_tag[1] = fc.kp_rows[best].t_str

\* The greatest kp of the window is carried by two rows with different times,
\* behind a row with a greater kp past the window; the peak is the first.
C21_Witness ==
    /\ fc.pc = "out"
    /\ Len(fc.kp_rows) = 4
    /\ fc.t = 2
    /\ fc.kp_rows[2] = KpRow(4, Hours(24) + 3, 900)
    /\ fc.kp_rows[3] = KpRow(4, Hours(24) + 2, 400)
    /\ fc.kp_rows[4] = KpRow(4, 2, 400)
    /\ fc.summary.max_kp = 400
    /\ fc.summary.max_entry.time_tag = <<Hours(24) + 2, "Z">>

\* The table without its malformed rows.
Cleaned(kp_rows) == <<Header>> \o SelectSeq(Tail(kp_rows), WellFormed)

\* C22: on a table with malformed rows (a time_tag or a kp that does not parse,
\* a row of the wrong shape) summarize_kp_next_24h and the next_possible scan
\* do not raise and return what they return for the table without those rows.
C22_Original ==
    fc.pc = "out" =>
        /\ ~fc.summary.raised
        /\ ~fc.forecast.raised
        /\ fc.summary = summarize_kp_next_24h(Cleaned(fc.kp_rows), fc.t)
        /\ fc.forecast.next_possible =
               get_aurora_forecast(Cleaned(fc.kp_rows), fc.t, fc.lat).next_possible

\* get_aurora_forecast has returned a forecast.
Returned == fc.pc = "out" /\ ~fc.forecast.raised

\* C23: the forecast returned has likely = true exactly when max_kp is not null
\* and max_kp >= required_kp_for_lat(lat) (kp in hundredths); with no sample in
\* the 24-hour window max_kp is null and likely is false.
C23_Likely ==
    Returned =>
        /\ fc.forecast.required_kp = required_kp_for_lat(fc.lat)
        /\ fc.forecast.likely <=>
               /\ fc.forecast.kp_max_next_24h # NULL
               /\ fc.forecast.kp_max_next_24h >= 100 * fc.forecast.required_kp
        /\ {i \in InWindow(fc.kp_rows, fc.t) : WellFormed(fc.kp_rows[i])} = {} =>
               /\ fc.forecast.kp_max_next_24h = NULL
               /\ ~fc.forecast.likely

\* A southern latitude whose required Kp is met exactly: likely.
C23_Witness ==
    /\ Returned
    /\ fc.lat = 0 - 40
    /\ fc.forecast.kp_max_next_24h = 900
    /\ fc.forecast.likely

\* The positions, after the header, of the rows later than t with kp >= req_kp.
Candidates(kp_rows, t, req_kp) ==
    {i \in 2..Len(kp_rows) :
        /\ kp_rows[i].t_str # NULL /\ kp_rows[i].kp_str # NULL
        /\ kp_rows[i].t_str > t
        /\ kp_rows[i].kp_str >= 100 * req_kp}

\* C24: next_possible is the date of the first row in document order, after the
\* header, with time > now and kp >= the required Kp, whatever the order of the
\* rows' times, and null when there is no such row; also when max_kp is null.
C24_NextPossible ==
    Returned =>
        LET Q == Candidates(fc.kp_rows, fc.t, required_kp_for_lat(fc.lat))
        IN  IF Q = {}
            THEN fc.forecast.next_possible = NULL
            ELSE LET first == CHOOSE i \in Q : \A j \in Q : i <= j
                 IN  fc.forecast.next_possible = DateOf(fc.kp_rows[first].t_str)

\* Two qualifying rows, the later one first in the document: next_possible is
\* the date of the later one.
C24_Witness ==
    /\ Returned
    /\ fc.t = 1 /\ fc.lat = 0 - 40
    /\ Len(fc.kp_rows) = 3
    /\ fc.kp_rows[2] = KpRow(4, Hours(24) + 3, 900)
    /\ fc.kp_rows[3] = KpRow(4, 2, 900)
    /\ fc.forecast.next_possible = 1

\* The example's call: latitude 65 at 2030-01-01T00:00:00Z.
ExampleCall == Returned /\ fc.kp_rows = ExampleTable /\ fc.t = 0 /\ fc.lat = 65

\* C25 as stated: the example yields required index 3, max_kp 6.0, likely and
\* peak.time_tag "2030-01-01 03:00:00Z".
C25_Original ==
    ExampleCall =>
        /\ fc.forecast.required_kp = 3
        /\ fc.forecast.kp_max_next_24h = 600
        /\ fc.forecast.likely
        /\ fc.forecast.peak.time_tag = <<Hours(3), "Z">>

\* C25: the example yields required index 4, max_kp 6.0, likely and
\* peak.time_tag "2030-01-01 03:00:00Z".
C25_Example ==
    ExampleCall =>
        /\ fc.forecast.required_kp = 4
        /\ fc.forecast.kp_max_next_24h = 600
        /\ fc.forecast.likely
        /\ fc.forecast.peak.time_tag = <<Hours(3), "Z">>

\* The example's call has returned a forecast with a peak.
C25_Witness ==
    /\ ExampleCall
    /\ fc.forecast.kp_max_next_24h # NULL
    /\ fc.forecast.peak.kp = 600

\* The night hours of the series with start <= time <= end + 1 day.
Matching ==
    {i \in 1..Len(vis.hours) :
        /\ vis.hours[i].is_night
        /\ vis.event.start <= vis.hours[i].time
        /\ vis.hours[i].time <= vis.event.end + Hours(24)}

RECURSIVE Total(_, _)
Total(I, field) ==
    IF I = {} THEN 0
    ELSE LET i == CHOOSE i \in I : TRUE
         IN  vis.hours[i][field] + Total(I \ {i}, field)

\* The base chances of the claim.
BaseOf(type) ==
    IF type = "meteor" THEN 65 ELSE IF type = "eclipse" THEN 80
    ELSE IF type = "comet" THEN 55 ELSE IF type = "aurora" THEN 70 ELSE 50

\* C26: with at least one matching night hour, chance is base(type) plus the
\* cloud adjustment (+15 for mean cloud < 20, +5 for < 50, -10 for < 75, else
\* -25) plus the precipitation adjustment (-20 for mean precipitation > 40, -10
\* for > 20, else 0), clamped to 0..100; chance is always an integer in 0..100.
C26_Chance ==
    vis.pc = "out" =>
        /\ vis.out.chance \in 0..100
        /\ Matching # {} =>
             LET n == Cardinality(Matching)
                 cloud == Total(Matching, "cloud")
                 precip == Total(Matching, "precip")
                 c == IF cloud < 20 * n THEN 15 ELSE IF cloud < 50 * n THEN 5
                      ELSE IF cloud < 75 * n THEN 0 - 10 ELSE 0 - 25
                 r == IF precip > 40 * n THEN 0 - 20
                      ELSE IF precip > 20 * n THEN 0 - 10 ELSE 0
                 sum == BaseOf(vis.event.type) + c + r
             IN  vis.out.chance = (IF sum > 100 THEN 100 ELSE IF sum < 0 THEN 0 ELSE sum)

\* Two matching hours whose mean cloud is exactly 20 and whose mean
\* precipitation is exactly 20, beside hours that do not match: base + 5.
C26_Witness ==
    /\ vis.pc = "out"
    /\ vis.event.type = "comet"
    /\ vis.hours = <<Hour(TRUE, 1, 10, 0), Hour(TRUE, 1 + Hours(1) + Hours(24), 30, 40)>>
    /\ vis.out.chance = 60

\* C27: with no matching night hour chance is base(type) and the reason is
\* "visibility uncertain"; with a matching night hour the reason is never
\* "visibility uncertain".
C27_Uncertain ==
    vis.pc = "out" =>
        /\ Matching = {} =>
              /\ vis.out.chance = BaseOf(vis.event.type)
              /\ vis.out.reason = <<"visibility uncertain">>
        /\ Matching # {} => vis.out.reason # <<"visibility uncertain">>

\* A series with a day hour inside the window and a night hour just past
\* end + 1 day: nothing matches.
C27_Witness ==
    /\ vis.pc = "out"
    /\ vis.event.type = "eclipse"
    /\ vis.hours = <<Hour(FALSE, 1, 80, 50), Hour(TRUE, 2 + Hours(1) + Hours(24), 80, 50)>>
    /\ vis.out.chance = 80
    /\ vis.out.reason = <<"visibility uncertain">>

\* The feed holds an event of this type and window.
InFeed(e) ==
    \E i \in 1..Len(up.out.feed) :
        /\ up.out.feed[i].type = e.type
        /\ up.out.feed[i].start = e.start
        /\ up.out.feed[i].end = e.end

\* C28: a catalog event whose end is more than 24 hours before now is not in
\* the feed, and any other catalog event is (end = now - 25h: excluded; end =
\* now - 23h: included), the cap not being reached.
C28_Original ==
    (up.pc = "out" /\ Len(up.sources) <= FeedCap) =>
        \A i \in 1..Len(up.sources) :
            up.sources[i].type \in {"eclipse", "meteor", "comet", "alignment"} =>
                (InFeed(up.sources[i]) <=> ~(up.sources[i].end + Hours(24) < up.t))

\* The number of events of the sequence that start before s.
Before(events, s) == Cardinality({i \in 1..Len(events) : events[i].start < s})

\* The number of occurrences of x in the sequence.
Count(events, x) == Cardinality({i \in 1..Len(events) : events[i] = x})

\* C29: the feed has at most FeedCap entries (the cap, 50 in the program), is
\* in ascending order of start, holds only events that passed the filters, all
\* of them if they are not more than the cap, and otherwise the cap's number of
\* them, with every event left out starting no earlier than any event in it.
C29_SortedCapped ==
    up.pc = "out" =>
        LET feed == up.out.feed
            enriched == up.out.enriched
        IN  /\ Len(feed) <= FeedCap
            /\ \A i \in 1..Len(feed) : \A j \in 1..Len(feed) :
                   i < j => feed[i].start <= feed[j].start
            /\ \A i \in 1..Len(feed) : Count(feed, feed[i]) <= Count(enriched, feed[i])
            /\ Len(feed) = (IF Len(enriched) > FeedCap THEN FeedCap ELSE Len(enriched))
            /\ Len(feed) > 0 =>
                   Before(feed, feed[Len(feed)].start)
                       = Before(enriched, feed[Len(feed)].start)

\* Three events pass the filters, collected latest first: the feed is the two
\* earliest, in ascending order.
C29_Witness ==
    /\ up.pc = "out"
    /\ Len(up.out.enriched) = 3
    /\ up.out.enriched[1].start = Days(29)
    /\ up.out.enriched[2].start = Days(28)
    /\ up.out.enriched[3].start = 0
    /\ Len(up.out.feed) = 2
    /\ up.out.feed[1].start = 0
    /\ up.out.feed[2].start = Days(28)

\* C30: with weather, an event of the feed is annotated exactly when its start
\* is not more than 28 x 24 hours after now; without latitude or longitude no
\* event is annotated.
C30_Original ==
    up.pc = "out" =>
        \A i \in 1..Len(up.out.feed) :
            (up.out.feed[i].visibility # NoAnnotation) <=>
                (up.has_weather /\ up.out.feed[i].start - up.t <= 28 * Hours(24))

\* The positions of the synthesized aurora event in a sequence of events.
AuroraAt(events) == {i \in 1..Len(events) : events[i].type = "aurora"}

\* C31 as stated: the feed holds a synthesized aurora event exactly when
\* latitude and longitude are given and the forecast is likely; never more than
\* one; its start is 00:00:00Z of the day of the peak sample.
C31_Original ==
    up.pc = "out" =>
        /\ AuroraAt(up.out.feed) # {} <=> (up.has_weather /\ up.forecast.likely)
        /\ Cardinality(AuroraAt(up.out.feed)) <= 1
        /\ \A i \in AuroraAt(up.out.feed) :
               up.out.feed[i].start = Days(DateOf(up.forecast.peak.time_tag[1]))

\* C31: the same, for a feed that the cap does not cut in front of the aurora
\* event: fewer than FeedCap (50 in the program) other events of the feed start
\* at or before 00:00:00Z of the peak day.
C31_Synthesis ==
    up.pc = "out" =>
        LET day == Days(DateOf(up.forecast.peak.time_tag[1]))
            ahead == {i \in 1..Len(up.out.enriched) :
                         /\ up.out.enriched[i].type # "aurora"
                         /\ up.out.enriched[i].start <= day}
        IN  /\ AuroraAt(up.out.feed) # {} <=>
                   /\ up.has_weather /\ up.forecast.likely
                   /\ Cardinality(ahead) < FeedCap
            /\ Cardinality(AuroraAt(up.out.feed)) <= 1
            /\ \A i \in AuroraAt(up.out.feed) : up.out.feed[i].start = day

\* A request with coordinates and a likely forecast: the aurora event is in the
\* feed behind a comet that began earlier, annotated, ahead of a later eclipse
\* that the cap cuts off.
C31_Witness ==
    /\ up.pc = "out"
    /\ up.has_weather /\ up.forecast.likely
    /\ Len(up.out.enriched) = 3
    /\ Len(up.out.feed) = 2
    /\ up.out.feed[1].type = "comet"
    /\ up.out.feed[2].type = "aurora"
    /\ up.out.feed[2].start = 0
    /\ up.out.feed[2].visibility # NoAnnotation

TableFulls(raw, month) ==
    SelectSeq(SortedItems(raw),
              LAMBDA r : r.phase = "Full Moon" /\ r.date.month = month)

FirstOfMonth(raw, date) == TableFulls(raw, date.month)[1].date = date

SecondOfMonth(raw, date) ==
    /\ Len(TableFulls(raw, date.month)) > 1
    /\ TableFulls(raw, date.month)[2].date = date

\* C33: whenever two full moons occur in the same calendar month, the second
\* one is labelled "Blue Moon" by get_moon_window and get_special_moon_events,
\* also when the first full moon of that month falls before the start of the
\* queried window; the first full moon of a month always gets the traditional
\* name of its month.
C33_Original ==
    moon.pc = "out" =>
        /\ \A i \in DOMAIN moon.window :
              moon.window[i].phase = "Full Moon" =>
                  /\ FirstOfMonth(moon.raw, moon.window[i].date)
                        => moon.window[i].special
                              = month_names(moon.window[i].date.month)
                  /\ SecondOfMonth(moon.raw, moon.window[i].date)
                        => moon.window[i].special = "Blue Moon"
        /\ \A i \in DOMAIN moon.special :
              /\ FirstOfMonth(moon.raw, moon.special[i].date)
                    => moon.special[i].title
                          = month_names(moon.special[i].date.month)
              /\ SecondOfMonth(moon.raw, moon.special[i].date)
                    => moon.special[i].title = "Blue Moon"

\* The title the month naming and the Blue Moon relabelling give a full moon.
FinalTitle(raw, date) ==
    IF SecondOfMonth(raw, date) THEN "Blue Moon" ELSE month_names(date.month)

DatesOf(events) == {events[i].date : i \in DOMAIN events}

\* C34: get_special_moon_events emits an event for a full moon of the window
\* if and only if its final title, after month naming and Blue Moon
\* relabelling, is Strawberry Moon, Supermoon or Micromoon; every other full
\* moon of the window, a Blue Moon included, produces no event.
C34_Original ==
    moon.pc = "out" =>
        \A d \in DOMAIN moon.raw :
            (moon.raw[d] = "Full Moon"
             /\ moon.today <= Ordinal(d) /\ Ordinal(d) <= moon.today + SPECIAL_MOON_DAYS)
            => (d \in DatesOf(moon.special)
                   <=> FinalTitle(moon.raw, d) \in Curated)

\* The date a row follows in the walk is the row before it in date order.
PhaseChanges(rows, i) ==
    /\ rows[i].phase \in Cardinal
    /\ i = 1 \/ rows[i - 1].phase # rows[i].phase

\* C35: walking the moon table in date order, build_moon_events emits an
\* event for a date if and only if that date's phase differs from the phase
\* of the date before it and is one of the four cardinal phases; a run of
\* dates with the same cardinal phase yields exactly one event, on its first
\* date, and intermediate phases never yield an event.
C35_PhaseChange ==
    moon.pc = "out" =>
        LET rows == SortedItems(moon.raw)
            due == {i \in DOMAIN rows : PhaseChanges(rows, i)}
        IN  /\ DatesOf(moon.events) = {rows[i].date : i \in due}
            /\ Len(moon.events) = Cardinality(due)
            /\ \A k \in DOMAIN moon.events :
                  /\ moon.events[k].title = moon.raw[moon.events[k].date]
                  /\ moon.events[k].title \in Cardinal
            /\ \A k \in DOMAIN moon.events : \A m \in DOMAIN moon.events :
                  k < m => Ordinal(moon.events[k].date) < Ordinal(moon.events[m].date)

\* A table with a two-day run of full moons at the start of May, an
\* intermediate phase after it and a new moon later: the walk was made.
C35_Witness ==
    /\ moon.pc = "out"
    /\ moon.raw[MoonDate(5, 1)] = "Full Moon"
    /\ moon.raw[MoonDate(5, 2)] = "Full Moon"
    /\ moon.raw[MoonDate(5, 31)] = "Waxing Gibbous"
    /\ moon.raw[MoonDate(6, 1)] = "New Moon"
    /\ Len(moon.events) >= 2


\* ---------------------------------------------------------------------------
\* The milestone loop and the past (Spec).

\* The rows whose markers a step writes.
Patched == {r \in DOMAIN user_events \cap DOMAIN user_events' :
               \E m \in Markers : user_events'[r][m] # user_events[r][m]}

\* C36: in every cycle of the milestone loop, no send_push call and no marker
\* write is made for a saved event whose start instant is earlier than the
\* time of the cycle's store query, whatever markers are still unset.
C36_NoPastReminder ==
    [][/\ \A p \in sent' :
             sched.pc = "run" /\ sched.events[p[1]].start >= sched.at
       /\ \A r \in Patched :
             sched.pc = "run" /\ user_events[r].start >= sched.at]_vars

\* A cycle has run its query while the table held a row that had started
\* before, with a marker of its branch still unset.
C36_Witness ==
    /\ sched.pc = "run"
    /\ \E r \in DOMAIN user_events :
          /\ user_events[r].start < sched.at
          /\ \E i \in DOMAIN MilestonesOf(user_events[r].type) :
                user_events[r][MilestonesOf(user_events[r].type)[i]] = NULL
          /\ r \notin DOMAIN sched.events


\* ---------------------------------------------------------------------------
\* The user's timezone (TzSpec).

\* C37: for a given saved event, store snapshot and instant, the set of
\* milestones the milestone loop dispatches is the same for every value of the
\* user's timezone, missing and invalid names (treated as UTC) included.
C37_Original ==
    tz.pc = "out" =>
        \A a \in TimezoneValues : \A b \in TimezoneValues :
            tz.sends[a] = tz.sends[b]


\* ---------------------------------------------------------------------------
\* Saved events the milestone loop has no branch for (InertSpec).

Handled(event) ==
    /\ event.type \in {"aurora", "meteor", "eclipse", "comet", "alignment", "moon"}
    /\ event.start # BadStart

\* C38: for a saved event whose type is moon_special or any value other than
\* aurora, meteor, eclipse, comet, alignment or moon, or whose start cannot be
\* parsed, no cycle of the milestone loop ever calls send_push or writes a
\* marker.
C38_Inert ==
    [][/\ \A p \in sent' : Handled(sched.events[p[1]])
       /\ \A r \in Patched : Handled(user_events[r])]_vars

\* A cycle has visited a row it has no branch for, or whose start it cannot
\* read, at a time when the 1-hour threshold of a moon phase with the start of
\* the catalog would have been crossed; every marker of the row is unset.
C38_Witness ==
    /\ sched.pc = "run"
    /\ now >= 3 - Hours(1)
    /\ \E r \in DOMAIN sched.events \ sched.todo :
          /\ ~Handled(sched.events[r])
          /\ r \in DOMAIN user_events
          /\ \A m \in Markers : user_events[r][m] = NULL


\* ---------------------------------------------------------------------------
\* The two passes of get_aurora_forecast over one table (ForecastSpec).

Ascending(kp_rows) ==
    \A i \in 2..Len(kp_rows) : \A j \in 2..Len(kp_rows) :
        (i < j /\ kp_rows[i].t_str # NULL /\ kp_rows[j].t_str # NULL)
            => kp_rows[i].t_str <= kp_rows[j].t_str

\* C39: for every table, time and latitude, whenever get_aurora_forecast
\* returns likely = true it also returns a non-null next_possible, and that
\* date is not later than the day of the peak sample when the rows are in
\* ascending time order.
C39_Original ==
    (Returned /\ fc.forecast.likely) =>
        /\ fc.forecast.next_possible # NULL
        /\ Ascending(fc.kp_rows)
              => fc.forecast.next_possible <= DateOf(fc.forecast.peak.time_tag[1])


\* ---------------------------------------------------------------------------
\* The weather cache by grid cell (WeatherSpec).

\* The document a file holds and the document a call returned, with the
\* stored lat and lon and generated_ts.
StoredDoc(file) ==
    [doc |-> file.doc, lat |-> file.lat, lon |-> file.lon, ts |-> file.generated_ts]

ReturnedDoc(call) ==
    [doc |-> call.ret, lat |-> call.ret_lat, lon |-> call.ret_lon, ts |-> call.ret_ts]

\* C40: get_weather_forecast returns the cached document without a network
\* call if and only if a cache entry exists for the grid cell of the request
\* (lat and lon each rounded to 2 decimals) and its age is below 1 hour; two
\* requests whose coordinates round to the same cell within the TTL receive
\* the identical document, its stored lat and lon included; and a fetch for
\* one cell never changes the entry of another cell.
C40_KeyedCache ==
    [][wxcall' # wxcall =>
          LET cell == _cache_path(wxcall'.lat, wxcall'.lon)
              file == wxcache[cell]
              hit == file.state = "entry" /\ now - file.generated_ts < Hours(1)
          IN  /\ wxcall'.pc = "done"
              /\ ~wxcall'.net <=> hit
              /\ hit => ReturnedDoc(wxcall') = StoredDoc(file)
              /\ (/\ wxcall.pc = "done"
                  /\ wxcall.ret # "raise"
                  /\ _cache_path(wxcall.lat, wxcall.lon) = cell
                  /\ now - wxcall.ret_ts < Hours(1))
                    => ReturnedDoc(wxcall') = ReturnedDoc(wxcall)
              /\ \A other \in Cells \ {cell} : wxcache'[other] = wxcache[other]
              /\ hit => wxcache' = wxcache]_vars

\* A request for one point of Berlin was answered from the file that a
\* request for the other point had stored, while the file of another cell
\* holds a different document.
C40_Witness ==
    /\ wxcall.pc = "done"
    /\ ~wxcall.net
    /\ wxcall.lat = 52521 /\ wxcall.ret_lat = 52519
    /\ wxcall.ret_ts < now
    /\ \E other \in Cells \ {wxcall.cell} :
          wxcache[other].state = "entry" /\ wxcache[other].doc # wxcall.ret

====
